---- MODULE Spec2Model ----
(***************************************************************************)
(* A2A communication core of open-deep-research-strands:                   *)
(*   messages.py          A2AMessage, MessageBuilder, MessageValidator     *)
(*   local_queue.py       LocalMessageQueue, LocalQueueManager             *)
(*   message_router.py    MessageRoute, MessageRouter                      *)
(*   agent_communication.py  AgentCommunicationHub                         *)
(*                                                                         *)
(* Python messages are mutable objects shared by reference between the     *)
(* router's buffers and the queues' buckets, so the model keeps a heap     *)
(* (msgs) indexed by message identity and the buffers hold identities.     *)
(* Queues are objects too (queues, indexed by object identity): the queue  *)
(* manager maps names to objects, and a hub's agent handler closes over    *)
(* the object, not the name. Message identities are handed out in the      *)
(* order in which messages enter the system, so a smaller identity is an   *)
(* earlier enqueue or routing call.                                        *)
(* Time is a discrete clock of whole seconds (now).                        *)
(***************************************************************************)
EXTENDS Integers, Sequences, FiniteSets, TLC

\* ---------------------------------------------------------------- bounds
MaxMsgs == 3
MaxTime == 2
MaxQueueSize == 2
MaxRoutes == 2
MaxRetries == 1
MaxRouted == 2
MaxRegistrations == 3
MaxStarts == 2
MaxSegments == 3
MaxTtl == 1
MaxRejects == 2
MaxConsumerStarts == 2
\* configuration attributes of the router, scaled down from their defaults
\* (max_queue_size = 10000, retry_delay = 5.0 s)
max_queue_size == 2
retry_delay == 1

\* ------------------------------------------------------------- constants
max_batch_size == 10
dead_letter_ttl == 3600
AgentQueueMaxSize == 1000
TtlResearchRequest == 600
TtlTaskAssignment == 300
TtlStatusUpdate == 60
DefaultMaxRetries == 3

\* ------------------------------------------------------------- universes
MsgIds == 1..MaxMsgs
NoMsg == 0
NoTtl == -1
Priorities == <<"urgent", "high", "normal", "low">>
PrioritySet == {"urgent", "high", "normal", "low"}
Agents == {"a1", "a2"}
Broadcast == "broadcast"
MessageTypes ==
  {"task_assignment", "task_result", "task_status_update", "task_cancellation",
   "research_request", "research_result", "research_progress",
   "quality_feedback", "quality_assessment", "revision_request",
   "status_update", "resource_request", "resource_allocation",
   "session_start", "session_end", "agent_registration", "agent_deregistration",
   "error_notification", "retry_request", "heartbeat", "shutdown_signal"}
QIds == 1..2
NoQueue == 0

VARIABLES
  now,                \* the clock (datetime.utcnow())
  msgs,               \* heap of A2AMessage objects
  queues,             \* heap of LocalMessageQueue objects
  qm_queues,          \* LocalQueueManager.queues: name -> queue object
  files,              \* the persistence files: queue name -> lines
  routes,             \* MessageRouter.routes
  agent_handlers,     \* MessageRouter.agent_handlers
  broadcast_handlers, \* MessageRouter.broadcast_handlers
  pending_messages,   \* MessageRouter.pending_messages
  retry_queue,        \* MessageRouter.retry_queue
  dead_letter_queue,  \* MessageRouter.dead_letter_queue
  router_stats,       \* MessageRouter.stats
  router_running,     \* MessageRouter.is_running
  processed_count,    \* _process_pending_messages' local counter
  flush_pc,           \* position of a running flush_queues call
  hub,                \* AgentCommunicationHub fields
  failing,            \* the user handlers that raise when called now
  op,                 \* the operation performed by the last step
  arg,                \* its message argument (or the message it returned)
  ret,                \* its return value
  invoked,            \* the handlers the last delivery attempt called
  attempts,           \* per message: calls of _deliver_message so far
  requeues            \* per message: times reject_message put it back in a queue

vars == <<now, msgs, queues, qm_queues, files, routes, agent_handlers,
          broadcast_handlers, pending_messages, retry_queue, dead_letter_queue,
          router_stats, router_running, processed_count, flush_pc, hub, failing,
          op, arg, ret, invoked, attempts, requeues>>

routerVars == <<routes, agent_handlers, broadcast_handlers, pending_messages,
                retry_queue, dead_letter_queue, router_stats, router_running,
                processed_count, flush_pc>>
queueVars == <<queues, qm_queues, files>>

\* the operation of a step that calls a method of the hub, with the agent id
\* it was called with
CallOp(name, agent) == name \o "(" \o agent \o ")"

\* -------------------------------------------------------------- messages
\* A payload is a value that is a dict or not, holding one key and its value
\* (an empty key: the empty dict; an empty val of a non-dict: a falsy value).
Payload(isdict, key, val) == [isdict |-> isdict, key |-> key, val |-> val]
EmptyPayload == Payload(TRUE, "", "")

\* A2AMessage(...) after __post_init__: message_id and timestamp are stamped.
NewMessage(sender, receiver, mtype, payload, priority, ttl, max_retries, t) ==
  [created |-> TRUE, sender_id |-> sender, receiver_id |-> receiver,
   message_type |-> mtype, payload |-> payload, priority |-> priority,
   ttl |-> ttl, timestamp |-> t, status |-> "pending", retry_count |-> 0,
   max_retries |-> max_retries, dead_letter_reason |-> "", dead_letter_time |-> -1,
   via |-> "direct", session_id |-> "session", correlation_id |-> NoMsg,
   reply_to |-> NoMsg]

Unborn ==
  [created |-> FALSE, sender_id |-> "", receiver_id |-> "", message_type |-> "",
   payload |-> EmptyPayload, priority |-> "normal", ttl |-> NoTtl, timestamp |-> 0,
   status |-> "pending", retry_count |-> 0, max_retries |-> 0,
   dead_letter_reason |-> "", dead_letter_time |-> -1, via |-> "", session_id |-> "",
   correlation_id |-> NoMsg, reply_to |-> NoMsg]

\* A2AMessage.is_expired: `if not self.ttl` is true of None and of 0.
is_expired(msg, t) ==
  IF msg.ttl = NoTtl \/ msg.ttl = 0 THEN FALSE ELSE (t - msg.timestamp) > msg.ttl

\* can_retry comparing with <= (one retry too many)
can_retry_off_by_one(msg, t) == msg.retry_count <= msg.max_retries /\ ~is_expired(msg, t)

\* A2AMessage.can_retry
can_retry(msg, t) == msg.retry_count < msg.max_retries /\ ~is_expired(msg, t)

\* a mark_retry that leaves the status alone
mark_retry_keeps_status(msg) == [msg EXCEPT !.retry_count = @ + 1]

\* A2AMessage.mark_retry
mark_retry(msg) == [msg EXCEPT !.retry_count = @ + 1, !.status = "pending"]

\* a reply addressed to the receiver of the original
create_reply_to_receiver(msg, id, sender_id, payload, mtype, t) ==
  [NewMessage(sender_id, msg.receiver_id, mtype, payload, msg.priority, NoTtl,
              DefaultMaxRetries, t)
     EXCEPT !.session_id = msg.session_id, !.correlation_id = id, !.reply_to = id]

\* A2AMessage.create_reply on the message msg whose message_id is id: the
\* fields of the reply
create_reply(msg, id, sender_id, payload, mtype, t) ==
  [NewMessage(sender_id, msg.sender_id, mtype, payload, msg.priority, NoTtl,
              DefaultMaxRetries, t)
     EXCEPT !.session_id = msg.session_id, !.correlation_id = id, !.reply_to = id]

\* A2AMessage.get_routing_key, as its dot-separated segments
get_routing_key(msg) == <<msg.message_type, msg.receiver_id>>

FreshId == IF \E m \in MsgIds : ~msgs[m].created
           THEN CHOOSE m \in MsgIds : ~msgs[m].created /\ \A k \in MsgIds : k < m => msgs[k].created
           ELSE NoMsg

\* ---------------------------------------------------------------- queues
EmptyBuckets == [p \in PrioritySet |-> <<>>]

\* Consumers of a queue. A consumer task is at the head of its loop or in
\* dequeue ("waiting"), inside the handler of the message msg ("handling"),
\* or has left the loop ("done"); pc "none" is a consumer without a task.
ConsumerIds == {"c1", "c2"}
NoTask == [pc |-> "none", msg |-> NoMsg]
NewTask == [pc |-> "waiting", msg |-> NoMsg]
NoTasks == [c \in ConsumerIds |-> NoTask]
TaskIds(q) == {c \in ConsumerIds : q.consumer_tasks[c].pc # "none"}
EmptyQueueStats == [messages_acknowledged |-> 0, messages_rejected |-> 0, consumers_active |-> 0]

\* LocalMessageQueue.__init__ with the default QueueConfiguration but max_size
NewQueue(name, max_size) ==
  [exists |-> TRUE, name |-> name, max_size |-> max_size, is_running |-> FALSE,
   messages |-> EmptyBuckets, auto_acknowledge |-> TRUE, consumers |-> {},
   consumer_tasks |-> NoTasks, cleanup_task |-> "None", stats |-> EmptyQueueStats]

NoQueueObj ==
  [exists |-> FALSE, name |-> "", max_size |-> 0, is_running |-> FALSE,
   messages |-> EmptyBuckets, auto_acknowledge |-> TRUE, consumers |-> {},
   consumer_tasks |-> NoTasks, cleanup_task |-> "None", stats |-> EmptyQueueStats]

\* LocalMessageQueue.start on the queue object q (persistence disabled)
StartedQueue(q) ==
  IF q.is_running THEN q
  ELSE [q EXCEPT !.is_running = TRUE, !.cleanup_task = "running"]

\* a stop that clears is_running but leaves the tasks alone
StoppedQueueKeepsTasks(q) ==
  [q EXCEPT !.is_running = FALSE]

\* LocalMessageQueue.stop on the queue object q (persistence disabled): every
\* consumer that has a task is removed, the cleanup task is cancelled
StoppedQueue(q) ==
  IF ~q.is_running THEN q
  ELSE [q EXCEPT !.is_running = FALSE,
                 !.consumers = @ \ TaskIds(q),
                 !.consumer_tasks = NoTasks,
                 !.cleanup_task = "cancelled"]

\* get_size()["total"]
TotalSize(buckets) ==
  Len(buckets["urgent"]) + Len(buckets["high"]) + Len(buckets["normal"]) + Len(buckets["low"])

\* is_empty()
is_empty(buckets) == \A p \in PrioritySet : Len(buckets[p]) = 0

InBuckets(buckets, m) ==
  \E p \in PrioritySet : \E i \in 1..Len(buckets[p]) : buckets[p][i] = m

\* an enqueue that accepts a message while the queue holds max_size messages
EnqueueAcceptsOneMore(q, msg, t) ==
  /\ TotalSize(q.messages) <= q.max_size
  /\ ~is_expired(msg, t)

\* LocalMessageQueue.enqueue: TRUE when the message is accepted
EnqueueAccepts(q, msg, t) ==
  /\ TotalSize(q.messages) < q.max_size
  /\ ~is_expired(msg, t)

\* LocalMessageQueue.enqueue: the queue afterwards
EnqueueResult(q, m, msg, t) ==
  IF EnqueueAccepts(q, msg, t)
  THEN [q EXCEPT !.messages[msg.priority] = Append(@, m)]
  ELSE q

\* dequeue polling the buckets from the lowest priority up
RECURSIVE DequeuePassReversed(_, _, _)
DequeuePassReversed(buckets, i, t) ==
  IF i > Len(Priorities) THEN [msg |-> NoMsg, messages |-> buckets]
  ELSE LET p == Priorities[Len(Priorities) + 1 - i] IN
       IF buckets[p] = <<>> THEN DequeuePassReversed(buckets, i + 1, t)
       ELSE LET m  == Head(buckets[p])
                b2 == [buckets EXCEPT ![p] = Tail(@)]
            IN IF is_expired(msgs[m], t) THEN DequeuePassReversed(b2, i + 1, t)
               ELSE [msg |-> m, messages |-> b2]

\* a pass that returns the head it finds and leaves it in its bucket
RECURSIVE DequeuePassPeeks(_, _, _)
DequeuePassPeeks(buckets, i, t) ==
  IF i > Len(Priorities) THEN [msg |-> NoMsg, messages |-> buckets]
  ELSE LET p == Priorities[i] IN
       IF buckets[p] = <<>> THEN DequeuePassPeeks(buckets, i + 1, t)
       ELSE LET m  == Head(buckets[p])
                b2 == [buckets EXCEPT ![p] = Tail(@)]
            IN IF is_expired(msgs[m], t) THEN DequeuePassPeeks(b2, i + 1, t)
               ELSE [msg |-> m, messages |-> buckets]

\* One pass of dequeue's for loop over the priorities, from the i-th on:
\* a bucket's head is popped; when it is expired it is dropped and the loop
\* goes on with the NEXT priority (the `continue` of the for loop).
RECURSIVE DequeuePass(_, _, _)
DequeuePass(buckets, i, t) ==
  IF i > Len(Priorities) THEN [msg |-> NoMsg, messages |-> buckets]
  ELSE LET p == Priorities[i] IN
       IF buckets[p] = <<>> THEN DequeuePass(buckets, i + 1, t)
       ELSE LET m  == Head(buckets[p])
                b2 == [buckets EXCEPT ![p] = Tail(@)]
            IN IF is_expired(msgs[m], t) THEN DequeuePass(b2, i + 1, t)
               ELSE [msg |-> m, messages |-> b2]

\* LocalMessageQueue.dequeue(timeout) on a running queue whose timeout lets
\* it make `passes` passes over the buckets: the passes go on until one of
\* them returns a message
RECURSIVE DequeueCall(_, _, _)
DequeueCall(buckets, passes, t) ==
  LET r == DequeuePass(buckets, 1, t) IN
  IF r.msg # NoMsg \/ passes <= 1 THEN r
  ELSE DequeueCall(r.messages, passes - 1, t)

\* the loop of get_agent_messages: up to count dequeue calls, ended by the
\* first that returns None
RECURSIVE Drain(_, _, _, _)
Drain(buckets, count, passes, t) ==
  IF count = 0 THEN [got |-> <<>>, messages |-> buckets]
  ELSE LET r == DequeueCall(buckets, passes, t) IN
       IF r.msg = NoMsg THEN [got |-> <<>>, messages |-> r.messages]
       ELSE LET rest == Drain(r.messages, count - 1, passes, t)
            IN [got |-> <<r.msg>> \o rest.got, messages |-> rest.messages]

\* _cleanup_expired_messages of a queue
SelectLive(s, t) == SelectSeq(s, LAMBDA m : ~is_expired(msgs[m], t))
CleanupBuckets(buckets, t) == [p \in PrioritySet |-> SelectLive(buckets[p], t)]

\* ---------------------------------------------------------------- router
\* Python dicts are functions with a finite domain.
EmptyDict == [k \in {} |-> 0]
Put(d, k, v) == [x \in (DOMAIN d) \cup {k} |-> IF x = k THEN v ELSE d[x]]
Del(d, k) == [x \in (DOMAIN d) \ {k} |-> d[x]]

\* Handlers: callables registered by a user of the router (they raise while
\* they are in `failing`), the hub's per-agent handler closing over a queue
\* object, and the hub's logging stubs.
UserHandlers == {"h1", "h2"}
UserHandler(name) == [kind |-> "user", name |-> name, q |-> NoQueue]
AgentQueueHandler(a, q) == [kind |-> "agent_queue", name |-> a, q |-> q]
StubHandler(name) == [kind |-> "stub", name |-> name, q |-> NoQueue]
Raises(h) == h.kind = "user" /\ h.name \in failing

\* MessageRoute._match_parts, on 1-based positions i, j
RECURSIVE SkipTo(_, _, _)
SkipTo(key_parts, j, next_pattern) ==
  IF j <= Len(key_parts) /\ key_parts[j] # next_pattern
  THEN SkipTo(key_parts, j + 1, next_pattern) ELSE j

RECURSIVE match_parts(_, _, _, _)
match_parts(pattern_parts, key_parts, i, j) ==
  IF i <= Len(pattern_parts) /\ j <= Len(key_parts)
  THEN IF pattern_parts[i] = "*" THEN match_parts(pattern_parts, key_parts, i + 1, j + 1)
       ELSE IF pattern_parts[i] = "**"
            THEN IF i = Len(pattern_parts) THEN TRUE
                 ELSE match_parts(pattern_parts, key_parts, i + 1,
                                  SkipTo(key_parts, j, pattern_parts[i + 1]))
            ELSE IF pattern_parts[i] # key_parts[j] THEN FALSE
                 ELSE match_parts(pattern_parts, key_parts, i + 1, j + 1)
  ELSE i = Len(pattern_parts) + 1 /\ j = Len(key_parts) + 1

\* MessageRoute._pattern_match, pattern and key as their dot-separated segments
pattern_match(pattern, key) ==
  IF pattern = <<"*">> THEN TRUE
  ELSE IF \A i \in 1..Len(pattern) : pattern[i] \notin {"*", "**"} THEN pattern = key
  ELSE match_parts(pattern, key, 1, 1)

\* MessageRoute.matches
matches(route, msg) == pattern_match(route.pattern, get_routing_key(msg))

\* MessageRoute.__init__; reg is the identity of the route object (the number
\* of its registration)
NewRoute(pattern, handler, priority, reg) ==
  [pattern |-> pattern, handler |-> handler, priority |-> priority, reg |-> reg]

\* a sort that puts a new route before the routes of its own priority
RECURSIVE InsertRouteBeforeEqual(_, _)
InsertRouteBeforeEqual(sorted, r) ==
  IF sorted = <<>> THEN <<r>>
  ELSE IF Head(sorted).priority > r.priority
       THEN <<Head(sorted)>> \o InsertRouteBeforeEqual(Tail(sorted), r)
       ELSE <<r>> \o sorted

\* list.sort(key=priority, reverse=True): a stable sort, priority descending
RECURSIVE InsertRoute(_, _)
InsertRoute(sorted, r) ==
  IF sorted = <<>> THEN <<r>>
  ELSE IF Head(sorted).priority >= r.priority
       THEN <<Head(sorted)>> \o InsertRoute(Tail(sorted), r)
       ELSE <<r>> \o sorted

RECURSIVE SortRoutes(_)
SortRoutes(rs) ==
  IF rs = <<>> THEN <<>>
  ELSE InsertRoute(SortRoutes(SubSeq(rs, 1, Len(rs) - 1)), rs[Len(rs)])

\* the first route of the table that matches, 0 when there is none
FirstMatch(rs, msg) ==
  IF \E i \in 1..Len(rs) : matches(rs[i], msg)
  THEN CHOOSE i \in 1..Len(rs) : matches(rs[i], msg) /\ \A k \in 1..(i - 1) : ~matches(rs[k], msg)
  ELSE 0

Call(via, h, reg) == [via |-> via, handler |-> h, reg |-> reg, raised |-> Raises(h)]

\* a broadcast that fails as soon as one handler raises
DeliverBroadcastAllOrNothing(msg) ==
  [ok      |-> broadcast_handlers # {} /\ \A h \in broadcast_handlers : ~Raises(h),
   invoked |-> {[via |-> "broadcast", handler |-> h, reg |-> 0, raised |-> Raises(h)] :
                  h \in broadcast_handlers},
   enq     |-> NoQueue]

\* MessageRouter._deliver_broadcast: every registered handler is called; one
\* that raises is logged and skipped
DeliverBroadcast(msg) ==
  [ok      |-> \E h \in broadcast_handlers : ~Raises(h),
   invoked |-> {Call("broadcast", h, 0) : h \in broadcast_handlers},
   enq     |-> NoQueue]

\* a delivery that prefers a matching route to the direct handler
DeliverMessageRouteFirst(msg) ==
  IF msg.receiver_id = Broadcast THEN DeliverBroadcast(msg)
  ELSE LET direct == msg.receiver_id \in DOMAIN agent_handlers
           dh     == agent_handlers[msg.receiver_id]
           fm     == FirstMatch(routes, msg)
       IN IF fm # 0
          THEN [ok |-> ~Raises(routes[fm].handler),
                invoked |-> {Call("route", routes[fm].handler, routes[fm].reg)},
                enq |-> NoQueue]
          ELSE IF direct
               THEN [ok |-> ~Raises(dh), invoked |-> {Call("agent", dh, 0)},
                     enq |-> IF dh.kind = "agent_queue" /\ ~Raises(dh) THEN dh.q ELSE NoQueue]
               ELSE [ok |-> FALSE, invoked |-> {}, enq |-> NoQueue]

\* MessageRouter._deliver_message: the outcome of one delivery attempt:
\* whether it returned True, the handlers called, and the queue object the
\* hub's agent handler (if called) enqueued into. A handler that raises ends
\* the attempt with False (the except clause).
DeliverMessage(msg) ==
  IF msg.receiver_id = Broadcast THEN DeliverBroadcast(msg)
  ELSE LET direct == msg.receiver_id \in DOMAIN agent_handlers
           dh     == agent_handlers[msg.receiver_id]
           dcall  == IF direct THEN {Call("agent", dh, 0)} ELSE {}
           denq   == IF direct /\ dh.kind = "agent_queue" THEN dh.q ELSE NoQueue
           fm     == FirstMatch(routes, msg)
       IN IF direct /\ Raises(dh)
          THEN [ok |-> FALSE, invoked |-> dcall, enq |-> NoQueue]
          ELSE IF fm = 0
               THEN [ok |-> direct, invoked |-> dcall, enq |-> denq]
               ELSE [ok |-> ~Raises(routes[fm].handler),
                     invoked |-> dcall \cup {Call("route", routes[fm].handler, routes[fm].reg)},
                     enq |-> denq]

\* MessageRouter._move_to_dead_letter: the message afterwards
DeadLettered(msg, reason, t) ==
  [msg EXCEPT !.status = "failed", !.dead_letter_reason = reason, !.dead_letter_time = t]

\* a sweep that takes every entry, ready or not
ReadyPrefixWhole(rq, t) == Len(rq)

\* MessageRouter._process_retry_queue: the entries at the head of the retry
\* queue whose time has come, up to the first one that is not ready
RECURSIVE ReadyPrefix(_, _)
ReadyPrefix(rq, t) ==
  IF rq # <<>> /\ Head(rq)[2] <= t THEN 1 + ReadyPrefix(Tail(rq), t) ELSE 0

\* a retry pass that takes the ready entries out and puts none back
ReadyMessagesDropped(rq, t) == <<>>

ReadyMessages(rq, t) == [i \in 1..ReadyPrefix(rq, t) |-> rq[i][1]]
NotReady(rq, t) == SubSeq(rq, ReadyPrefix(rq, t) + 1, Len(rq))

\* MessageRouter._cleanup_expired_messages: the dead letters kept
KeptDeadLetters(dl, t) ==
  SelectSeq(dl, LAMBDA m : msgs[m].dead_letter_time = -1
                           \/ (t - msgs[m].dead_letter_time) < dead_letter_ttl)

\* ----------------------------------------------------------- init (parts)
InitMessages ==
  /\ now = 0
  /\ msgs = [m \in MsgIds |-> Unborn]
  /\ attempts = [m \in MsgIds |-> 0]
  /\ requeues = [m \in MsgIds |-> 0]
  /\ op = "init" /\ arg = NoMsg /\ ret = "" /\ invoked = {}

InitRouterState ==
  /\ routes = <<>>
  /\ agent_handlers = EmptyDict
  /\ broadcast_handlers = {}
  /\ pending_messages = <<>>
  /\ retry_queue = <<>>
  /\ dead_letter_queue = <<>>
  /\ router_stats = [messages_routed |-> 0, messages_delivered |-> 0,
                     messages_failed |-> 0, messages_retried |-> 0,
                     routes_registered |-> 0]
  /\ router_running = FALSE
  /\ processed_count = 0
  /\ flush_pc = "idle"
  /\ failing = {}

\* hub.peer holds the fields of a second AgentCommunicationHub of the
\* process, which shares the global router and the global queue manager
InitHubState ==
  hub = [is_running |-> FALSE, registered_agents |-> {}, agent_queues |-> {},
         message_builders |-> {}, message_count |-> [a \in Agents |-> 0],
         registration |-> [a \in Agents |-> 0],
         stats |-> [agents_registered |-> 0, messages_sent |-> 0,
                    messages_delivered |-> 0, communication_errors |-> 0],
         peer |-> [is_running |-> FALSE, registered_agents |-> {},
                   agent_queues |-> {}]]

\* ------------------------------------------------------- common actions
\* The messages a caller hands in: without TTL and constructed just now, or
\* with a TTL of one second and constructed at any time up to now.
MessageInputs ==
  {[ttl |-> NoTtl, timestamp |-> now]} \cup {[ttl |-> 1, timestamp |-> ts] : ts \in 0..now}

\* the clock advances
Tick ==
  /\ now < MaxTime
  /\ now' = now + 1
  /\ op' = "other" /\ arg' = NoMsg /\ ret' = "" /\ invoked' = {}
  /\ UNCHANGED <<msgs, queueVars, routerVars, hub, failing, attempts, requeues>>

\* ------------------------------------------------------ router actions
\* MessageRouter.register_route
RegisterRoute(pattern, h, priority) ==
  /\ Len(routes) < MaxRoutes
  /\ routes' = SortRoutes(Append(routes,
                  NewRoute(pattern, h, priority, router_stats.routes_registered + 1)))
  /\ router_stats' = [router_stats EXCEPT !.routes_registered = @ + 1]
  /\ op' = "register_route" /\ arg' = NoMsg /\ ret' = "" /\ invoked' = {}
  /\ UNCHANGED <<now, msgs, queueVars, agent_handlers, broadcast_handlers,
                 pending_messages, retry_queue, dead_letter_queue, router_running,
                 processed_count, flush_pc, hub, failing, attempts, requeues>>

\* MessageRouter.register_agent_handler
RegisterAgentHandler(a, h) ==
  /\ agent_handlers' = Put(agent_handlers, a, h)
  /\ op' = "other" /\ arg' = NoMsg /\ ret' = "" /\ invoked' = {}
  /\ UNCHANGED <<now, msgs, queueVars, routes, broadcast_handlers, pending_messages,
                 retry_queue, dead_letter_queue, router_stats, router_running,
                 processed_count, flush_pc, hub, failing, attempts, requeues>>

\* MessageRouter.unregister_agent_handler
UnregisterAgentHandler(a) ==
  /\ agent_handlers' = IF a \in DOMAIN agent_handlers THEN Del(agent_handlers, a)
                       ELSE agent_handlers
  /\ op' = "other" /\ arg' = NoMsg /\ ret' = "" /\ invoked' = {}
  /\ UNCHANGED <<now, msgs, queueVars, routes, broadcast_handlers, pending_messages,
                 retry_queue, dead_letter_queue, router_stats, router_running,
                 processed_count, flush_pc, hub, failing, attempts, requeues>>

\* MessageRouter.register_broadcast_handler
RegisterBroadcastHandler(h) ==
  /\ broadcast_handlers' = broadcast_handlers \cup {h}
  /\ op' = "other" /\ arg' = NoMsg /\ ret' = "" /\ invoked' = {}
  /\ UNCHANGED <<now, msgs, queueVars, routes, agent_handlers, pending_messages,
                 retry_queue, dead_letter_queue, router_stats, router_running,
                 processed_count, flush_pc, hub, failing, attempts, requeues>>

\* MessageRouter.unregister_broadcast_handler
UnregisterBroadcastHandler(h) ==
  /\ broadcast_handlers' = broadcast_handlers \ {h}
  /\ op' = "other" /\ arg' = NoMsg /\ ret' = "" /\ invoked' = {}
  /\ UNCHANGED <<now, msgs, queueVars, routes, agent_handlers, pending_messages,
                 retry_queue, dead_letter_queue, router_stats, router_running,
                 processed_count, flush_pc, hub, failing, attempts, requeues>>

\* a user handler starts or stops raising
SetFailing(name) ==
  /\ failing' = IF name \in failing THEN failing \ {name} ELSE failing \cup {name}
  /\ op' = "other" /\ arg' = NoMsg /\ ret' = "" /\ invoked' = {}
  /\ UNCHANGED <<now, msgs, queueVars, routerVars, hub, attempts, requeues>>

\* MessageRouter.route_message: its return value
RouteAccepts(msg) ==
  /\ ~is_expired(msg, now)
  /\ ~(Len(pending_messages) >= max_queue_size)

\* route_message checking the capacity before the expiry
RouteDropReasonCapacityFirst(msg) ==
  IF Len(pending_messages) >= max_queue_size THEN "queue_full"
  ELSE IF is_expired(msg, now) THEN "expired"
  ELSE ""

\* MessageRouter.route_message: why it drops the message ("" when it does not)
RouteDropReason(msg) ==
  IF is_expired(msg, now) THEN "expired"
  ELSE IF Len(pending_messages) >= max_queue_size THEN "queue_full"
  ELSE ""

\* MessageRouter.route_message(message), the message being object m with the
\* fields msg: its effect on the router and on the message
RouteMessageEffect(m, msg) ==
  IF RouteDropReason(msg) # ""
  THEN /\ msgs' = [msgs EXCEPT ![m] = DeadLettered(msg, RouteDropReason(msg), now)]
       /\ dead_letter_queue' = Append(dead_letter_queue, m)
       /\ router_stats' = [router_stats EXCEPT !.messages_failed = @ + 1]
       /\ UNCHANGED pending_messages
  ELSE /\ msgs' = [msgs EXCEPT ![m] = [msg EXCEPT !.status = "sent"]]
       /\ pending_messages' = Append(pending_messages, m)
       /\ router_stats' = [router_stats EXCEPT !.messages_routed = @ + 1]
       /\ UNCHANGED dead_letter_queue

\* a route_message that delivers at once instead of queuing
RouteMessageDelivering(receiver, mtype, ttl, ts, max_retries) ==
  /\ FreshId # NoMsg
  /\ LET m   == FreshId
         msg == [NewMessage("s", receiver, mtype, Payload(TRUE, "task", "t"),
                            "normal", ttl, max_retries, ts) EXCEPT !.status = "sent"]
         out == DeliverMessage(msg)
     IN /\ msgs' = [msgs EXCEPT ![m] = msg]
        /\ pending_messages' = Append(pending_messages, m)
        /\ invoked' = out.invoked
        /\ attempts' = [attempts EXCEPT ![m] = @ + 1]
        /\ ret' = "True" /\ arg' = m
  /\ op' = "route_message"
  /\ UNCHANGED <<now, queueVars, routes, agent_handlers, broadcast_handlers, retry_queue,
                 dead_letter_queue, router_stats, router_running, processed_count,
                 flush_pc, hub, failing, requeues>>

\* a caller hands a message it constructed at time ts to route_message
RouteMessage(receiver, mtype, ttl, ts, max_retries) ==
  /\ FreshId # NoMsg
  /\ LET m   == FreshId
         msg == NewMessage("s", receiver, mtype, Payload(TRUE, "task", "t"),
                           "normal", ttl, max_retries, ts)
     IN /\ RouteMessageEffect(m, msg)
        /\ ret' = IF RouteAccepts(msg) THEN "True" ELSE "False"
        /\ arg' = m
  /\ op' = "route_message" /\ invoked' = {}
  /\ UNCHANGED <<now, queueVars, routes, agent_handlers, broadcast_handlers, retry_queue,
                 router_running, processed_count, flush_pc, hub, failing, attempts, requeues>>

\* MessageRouter.start_processing
StartProcessing ==
  /\ router_running' = TRUE
  /\ processed_count' = IF router_running THEN processed_count ELSE 0
  /\ op' = "other" /\ arg' = NoMsg /\ ret' = "" /\ invoked' = {}
  /\ UNCHANGED <<now, msgs, queueVars, routes, agent_handlers, broadcast_handlers,
                 pending_messages, retry_queue, dead_letter_queue, router_stats,
                 flush_pc, hub, failing, attempts, requeues>>

\* MessageRouter.stop_processing: the loop's task is cancelled; ret is the
\* line the call logs, none on the early return
StopProcessing ==
  /\ IF ~router_running
     THEN UNCHANGED <<router_running, processed_count>>
     ELSE /\ router_running' = FALSE
          /\ processed_count' = 0
  /\ ret' = IF router_running THEN "Message router stopped" ELSE ""
  /\ op' = "stop_processing" /\ arg' = NoMsg /\ invoked' = {}
  /\ UNCHANGED <<now, msgs, queueVars, routes, agent_handlers, broadcast_handlers,
                 pending_messages, retry_queue, dead_letter_queue, router_stats,
                 flush_pc, hub, failing, attempts, requeues>>

\* The effects of the handlers one delivery attempt calls: the hub's agent
\* handler enqueues into its queue object and counts an accepted message;
\* user handlers and stubs leave the modelled state alone.
HandlerEffects(m, out) ==
  /\ invoked' = out.invoked
  /\ attempts' = [attempts EXCEPT ![m] = @ + 1]
  /\ IF out.enq # NoQueue
     THEN /\ queues' = [queues EXCEPT ![out.enq] = EnqueueResult(@, m, msgs[m], now)]
          /\ hub' = IF EnqueueAccepts(queues[out.enq], msgs[m], now)
                    THEN [hub EXCEPT !.stats.messages_delivered = @ + 1] ELSE hub
     ELSE UNCHANGED <<queues, hub>>

\* MessageRouter._handle_delivery_failure
HandleDeliveryFailure(m) ==
  IF can_retry(msgs[m], now)
  THEN /\ msgs' = [msgs EXCEPT ![m] = mark_retry(@)]
       /\ retry_queue' = Append(retry_queue, <<m, now + retry_delay>>)
       /\ router_stats' = [router_stats EXCEPT !.messages_retried = @ + 1]
       /\ UNCHANGED dead_letter_queue
  ELSE /\ msgs' = [msgs EXCEPT ![m] = DeadLettered(@, "max_retries_exceeded", now)]
       /\ dead_letter_queue' = Append(dead_letter_queue, m)
       /\ router_stats' = [router_stats EXCEPT !.messages_failed = @ + 1]
       /\ UNCHANGED retry_queue

\* MessageRouter._process_pending_messages: one turn of its while loop
ProcessPending ==
  /\ router_running
  /\ pending_messages # <<>> /\ processed_count < max_batch_size
  /\ LET m   == Head(pending_messages)
         out == DeliverMessage(msgs[m])
     IN /\ pending_messages' = Tail(pending_messages)
        /\ HandlerEffects(m, out)
        /\ IF out.ok
           THEN /\ msgs' = [msgs EXCEPT ![m].status = "delivered"]
                /\ router_stats' = [router_stats EXCEPT !.messages_delivered = @ + 1]
                /\ UNCHANGED <<retry_queue, dead_letter_queue>>
           ELSE HandleDeliveryFailure(m)
        /\ arg' = m
        /\ ret' = IF out.ok THEN "True" ELSE "False"
  /\ processed_count' = processed_count + 1
  /\ op' = "process"
  /\ UNCHANGED <<now, qm_queues, files, routes, agent_handlers, broadcast_handlers,
                 router_running, flush_pc, failing, requeues>>

\* MessageRouter._processing_loop: the rest of one iteration, after the batch:
\* _process_retry_queue, _cleanup_expired_messages, sleep
LoopTail ==
  /\ router_running
  /\ pending_messages = <<>> \/ processed_count >= max_batch_size
  /\ pending_messages' = pending_messages \o ReadyMessages(retry_queue, now)
  /\ retry_queue' = NotReady(retry_queue, now)
  /\ dead_letter_queue' = KeptDeadLetters(dead_letter_queue, now)
  /\ processed_count' = 0
  /\ op' = "loop_tail" /\ arg' = NoMsg /\ ret' = "" /\ invoked' = {}
  /\ UNCHANGED <<now, msgs, queueVars, routes, agent_handlers, broadcast_handlers,
                 router_stats, router_running, flush_pc, hub, failing, attempts, requeues>>

\* MessageRouter.flush_queues is entered
FlushStart ==
  /\ flush_pc = "idle"
  /\ flush_pc' = "first"
  /\ op' = "other" /\ arg' = NoMsg /\ ret' = "" /\ invoked' = {}
  /\ UNCHANGED <<now, msgs, queueVars, routes, agent_handlers, broadcast_handlers,
                 pending_messages, retry_queue, dead_letter_queue, router_stats,
                 router_running, processed_count, hub, failing, attempts, requeues>>

\* flush_queues: one turn of either of its while loops; the result of
\* _deliver_message is not looked at
FlushDeliver ==
  /\ flush_pc \in {"first", "second"}
  /\ pending_messages # <<>>
  /\ LET m   == Head(pending_messages)
         out == DeliverMessage(msgs[m])
     IN /\ pending_messages' = Tail(pending_messages)
        /\ HandlerEffects(m, out)
        /\ arg' = m
        /\ ret' = IF out.ok THEN "True" ELSE "False"
  /\ op' = "flush"
  /\ UNCHANGED <<now, msgs, qm_queues, files, routes, agent_handlers, broadcast_handlers,
                 retry_queue, dead_letter_queue, router_stats, router_running,
                 processed_count, flush_pc, failing, requeues>>

\* flush_queues: the pending buffer is drained; the first time the ready
\* retries are moved to it, the second time the call returns
FlushAdvance ==
  /\ flush_pc \in {"first", "second"}
  /\ pending_messages = <<>>
  /\ IF flush_pc = "first"
     THEN /\ pending_messages' = ReadyMessages(retry_queue, now)
          /\ retry_queue' = NotReady(retry_queue, now)
          /\ flush_pc' = "second"
     ELSE /\ flush_pc' = "idle"
          /\ UNCHANGED <<pending_messages, retry_queue>>
  /\ op' = "other" /\ arg' = NoMsg /\ ret' = "" /\ invoked' = {}
  /\ UNCHANGED <<now, msgs, queueVars, routes, agent_handlers, broadcast_handlers,
                 dead_letter_queue, router_stats, router_running, processed_count,
                 hub, failing, attempts, requeues>>

\* --------------------------------------------------------- hub actions
\* Python truthiness of a payload: a non-empty dict, a non-empty other value
Truthy(payload) == IF payload.isdict THEN payload.key # "" ELSE payload.val # ""

\* a validator that does not check the type of the payload
validate_message_any_payload(msg) ==
  /\ msg.sender_id # "" /\ msg.receiver_id # "" /\ msg.message_type # ""
  /\ Truthy(msg.payload) /\ msg.session_id # ""
  /\ msg.message_type \in MessageTypes

\* MessageValidator.validate_message(message)["valid"]; message_id and
\* timestamp are stamped by __post_init__ and never empty
validate_message(msg) ==
  /\ msg.sender_id # "" /\ msg.receiver_id # "" /\ msg.message_type # ""
  /\ Truthy(msg.payload) /\ msg.session_id # ""
  /\ msg.payload.isdict
  /\ msg.message_type \in MessageTypes

\* the name of an agent's queue: f"agent_queue_{agent_id}"
QueueName(a) == "agent_queue_" \o a

\* a queue object identity that is not in use
FreshQueue == IF \E q \in QIds : ~queues[q].exists
              THEN CHOOSE q \in QIds : ~queues[q].exists /\ \A k \in QIds : k < q => queues[k].exists
              ELSE NoQueue

\* LocalQueueManager.create_queue called by the application with its own
\* QueueConfiguration(max_size): the queue of that name, if there is one, is
\* returned as it is; otherwise the queue is made and started
CreateQueue(name, max_size) ==
  /\ IF name \in DOMAIN qm_queues
     THEN UNCHANGED <<queues, qm_queues>>
     ELSE /\ FreshQueue # NoQueue
          /\ queues' = [queues EXCEPT ![FreshQueue] =
                          StartedQueue(NewQueue(name, max_size))]
          /\ qm_queues' = Put(qm_queues, name, FreshQueue)
  /\ op' = "create_queue" /\ arg' = NoMsg /\ ret' = name /\ invoked' = {}
  /\ UNCHANGED <<now, files, msgs, routes, agent_handlers, broadcast_handlers,
                 pending_messages, retry_queue, dead_letter_queue, router_stats,
                 router_running, processed_count, flush_pc, hub, failing, attempts, requeues>>

\* AgentCommunicationHub._setup_default_routes: four register_route calls
DefaultRoutes(n) ==
  <<NewRoute(<<"task_assignment", "*">>, StubHandler("_handle_task_assignment"), 10, n + 1),
    NewRoute(<<"research_request", "*">>, StubHandler("_handle_research_request"), 10, n + 2),
    NewRoute(<<"status_update", "*">>, StubHandler("_handle_status_update"), 5, n + 3),
    NewRoute(<<"*">>, StubHandler("_handle_default_message"), 1, n + 4)>>

\* AgentCommunicationHub.start
HubStart ==
  /\ IF hub.is_running
     THEN UNCHANGED <<hub, router_running, processed_count, routes, router_stats>>
     ELSE /\ router_running' = TRUE
          /\ processed_count' = IF router_running THEN processed_count ELSE 0
          /\ routes' = SortRoutes(routes \o DefaultRoutes(router_stats.routes_registered))
          /\ router_stats' = [router_stats EXCEPT !.routes_registered = @ + 4]
          /\ hub' = [hub EXCEPT !.is_running = TRUE]
  /\ op' = "other" /\ arg' = NoMsg /\ ret' = "" /\ invoked' = {}
  /\ UNCHANGED <<now, msgs, queueVars, agent_handlers, broadcast_handlers,
                 pending_messages, retry_queue, dead_letter_queue, flush_pc,
                 failing, attempts, requeues>>

\* register_agent without its early return for a registered agent
HubRegisterAgentAgain(a) ==
  /\ LET name == QueueName(a)
         have == name \in DOMAIN qm_queues
         q    == IF have THEN qm_queues[name] ELSE FreshQueue
     IN /\ q # NoQueue
        /\ queues' = IF have THEN queues
                     ELSE [queues EXCEPT ![q] =
                             StartedQueue(NewQueue(name, AgentQueueMaxSize))]
        /\ qm_queues' = Put(qm_queues, name, q)
        /\ agent_handlers' = Put(agent_handlers, a, AgentQueueHandler(a, q))
        /\ hub' = [hub EXCEPT !.registered_agents = @ \cup {a},
                              !.agent_queues = @ \cup {a},
                              !.message_builders = @ \cup {a},
                              !.message_count[a] = 0,
                              !.registration[a] = hub.stats.agents_registered + 1,
                              !.stats.agents_registered = @ + 1]
  /\ op' = CallOp("register_agent", a) /\ arg' = NoMsg /\ ret' = "True" /\ invoked' = {}
  /\ UNCHANGED <<now, files, msgs, routes, broadcast_handlers, pending_messages, retry_queue,
                 dead_letter_queue, router_stats, router_running, processed_count,
                 flush_pc, failing, attempts, requeues>>

\* AgentCommunicationHub.register_agent, with LocalQueueManager.create_queue
\* (which starts the queue it creates). hub.registration[a] is the identity
\* of the agent's registration record, MessageBuilder and session: the
\* number of the registration that made them.
HubRegisterAgent(a) ==
  /\ IF a \in hub.registered_agents
     THEN UNCHANGED <<hub, queues, qm_queues, agent_handlers>>
     ELSE LET name == QueueName(a)
              have == name \in DOMAIN qm_queues
              q    == IF have THEN qm_queues[name] ELSE FreshQueue
          IN /\ q # NoQueue
             /\ queues' = IF have THEN queues
                          ELSE [queues EXCEPT ![q] =
                                  StartedQueue(NewQueue(name, AgentQueueMaxSize))]
             /\ qm_queues' = Put(qm_queues, name, q)
             /\ agent_handlers' = Put(agent_handlers, a, AgentQueueHandler(a, q))
             /\ hub' = [hub EXCEPT !.registered_agents = @ \cup {a},
                                   !.agent_queues = @ \cup {a},
                                   !.message_builders = @ \cup {a},
                                   !.message_count[a] = 0,
                                   !.registration[a] = hub.stats.agents_registered + 1,
                                   !.stats.agents_registered = @ + 1]
  /\ op' = CallOp("register_agent", a) /\ arg' = NoMsg /\ ret' = "True" /\ invoked' = {}
  /\ UNCHANGED <<now, files, msgs, routes, broadcast_handlers, pending_messages, retry_queue,
                 dead_letter_queue, router_stats, router_running, processed_count,
                 flush_pc, failing, attempts, requeues>>

\* the queue object the direct handler of agent a closes over
HandlerQueue(a) ==
  IF a \in DOMAIN agent_handlers /\ agent_handlers[a].kind = "agent_queue"
  THEN agent_handlers[a].q ELSE NoQueue

\* the queue object the queue manager holds under the agent's queue name
ManagedQueue(a) ==
  IF QueueName(a) \in DOMAIN qm_queues THEN qm_queues[QueueName(a)] ELSE NoQueue

\* an unregister_agent that leaves the agent's queue in the queue manager
HubUnregisterAgentKeepsQueue(a) ==
  /\ IF a \notin hub.registered_agents
     THEN /\ ret' = "False"
          /\ UNCHANGED <<hub, queues, qm_queues, agent_handlers>>
     ELSE /\ ret' = "True"
          /\ agent_handlers' = IF a \in DOMAIN agent_handlers THEN Del(agent_handlers, a)
                               ELSE agent_handlers
          /\ UNCHANGED <<queues, qm_queues>>
          /\ hub' = [hub EXCEPT !.registered_agents = @ \ {a},
                                !.agent_queues = @ \ {a},
                                !.message_builders = @ \ {a},
                                !.message_count[a] = 0,
                                !.registration[a] = 0]
  /\ op' = CallOp("unregister_agent", a) /\ arg' = NoMsg /\ invoked' = {}
  /\ UNCHANGED <<now, files, msgs, routes, broadcast_handlers, pending_messages, retry_queue,
                 dead_letter_queue, router_stats, router_running, processed_count,
                 flush_pc, failing, attempts, requeues>>

\* AgentCommunicationHub.unregister_agent, with LocalQueueManager.delete_queue.
\* The queue object the removed handler closed over and the one deleted from
\* the queue manager are referenced by nobody afterwards.
HubUnregisterAgent(a) ==
  /\ IF a \notin hub.registered_agents
     THEN /\ ret' = "False"
          /\ UNCHANGED <<hub, queues, qm_queues, agent_handlers>>
     ELSE LET hq == HandlerQueue(a)
              mq == IF a \in hub.agent_queues THEN ManagedQueue(a) ELSE NoQueue
          IN
          /\ ret' = "True"
          /\ agent_handlers' = IF a \in DOMAIN agent_handlers THEN Del(agent_handlers, a)
                               ELSE agent_handlers
          /\ queues' = [q \in QIds |-> IF q \in {hq, mq} THEN NoQueueObj ELSE queues[q]]
          /\ qm_queues' = IF mq # NoQueue THEN Del(qm_queues, QueueName(a)) ELSE qm_queues
          /\ hub' = [hub EXCEPT !.registered_agents = @ \ {a},
                                !.agent_queues = @ \ {a},
                                !.message_builders = @ \ {a},
                                !.message_count[a] = 0,
                                !.registration[a] = 0]
  /\ op' = CallOp("unregister_agent", a) /\ arg' = NoMsg /\ invoked' = {}
  /\ UNCHANGED <<now, files, msgs, routes, broadcast_handlers, pending_messages, retry_queue,
                 dead_letter_queue, router_stats, router_running, processed_count,
                 flush_pc, failing, attempts, requeues>>

\* AgentCommunicationHub.stop, with LocalQueueManager.shutdown_all (every
\* managed queue is stopped and deleted from the manager) and
\* MessageRouter.stop_processing
HubStop ==
  /\ IF ~hub.is_running
     THEN UNCHANGED <<hub, queues, qm_queues, router_running, processed_count>>
     ELSE /\ queues' = [q \in QIds |->
                          IF \E n \in DOMAIN qm_queues : qm_queues[n] = q
                          THEN StoppedQueue(queues[q]) ELSE queues[q]]
          /\ qm_queues' = EmptyDict
          /\ router_running' = FALSE
          /\ processed_count' = 0
          /\ hub' = [hub EXCEPT !.is_running = FALSE]
  /\ ret' = IF hub.is_running THEN "Communication hub stopped" ELSE ""
  /\ op' = "hub_stop" /\ arg' = NoMsg /\ invoked' = {}
  /\ UNCHANGED <<now, files, msgs, routes, agent_handlers, broadcast_handlers,
                 pending_messages, retry_queue, dead_letter_queue, router_stats,
                 flush_pc, failing, attempts, requeues>>

\* AgentCommunicationHub.start of the second hub
PeerStart ==
  /\ IF hub.peer.is_running
     THEN UNCHANGED <<hub, router_running, processed_count, routes, router_stats>>
     ELSE /\ router_running' = TRUE
          /\ processed_count' = IF router_running THEN processed_count ELSE 0
          /\ routes' = SortRoutes(routes \o DefaultRoutes(router_stats.routes_registered))
          /\ router_stats' = [router_stats EXCEPT !.routes_registered = @ + 4]
          /\ hub' = [hub EXCEPT !.peer.is_running = TRUE]
  /\ op' = "peer_start" /\ arg' = NoMsg /\ ret' = "" /\ invoked' = {}
  /\ UNCHANGED <<now, msgs, queueVars, agent_handlers, broadcast_handlers,
                 pending_messages, retry_queue, dead_letter_queue, flush_pc,
                 failing, attempts, requeues>>

\* AgentCommunicationHub.register_agent of the second hub
PeerRegisterAgent(a) ==
  /\ IF a \in hub.peer.registered_agents
     THEN UNCHANGED <<hub, queues, qm_queues, agent_handlers>>
     ELSE LET name == QueueName(a)
              have == name \in DOMAIN qm_queues
              q    == IF have THEN qm_queues[name] ELSE FreshQueue
          IN /\ q # NoQueue
             /\ queues' = IF have THEN queues
                          ELSE [queues EXCEPT ![q] =
                                  StartedQueue(NewQueue(name, AgentQueueMaxSize))]
             /\ qm_queues' = Put(qm_queues, name, q)
             /\ agent_handlers' = Put(agent_handlers, a, AgentQueueHandler(a, q))
             /\ hub' = [hub EXCEPT !.peer.registered_agents = @ \cup {a},
                                   !.peer.agent_queues = @ \cup {a}]
  /\ op' = CallOp("peer_register_agent", a) /\ arg' = NoMsg /\ ret' = "True"
  /\ invoked' = {}
  /\ UNCHANGED <<now, files, msgs, routes, broadcast_handlers, pending_messages,
                 retry_queue, dead_letter_queue, router_stats, router_running,
                 processed_count, flush_pc, failing, attempts, requeues>>

\* AgentCommunicationHub.send_message(message), the message being the new
\* object m with the fields msg
HubSendEffect(m, msg) ==
  /\ arg' = m
  /\ IF ~validate_message(msg)
     THEN /\ msgs' = [msgs EXCEPT ![m] = msg]
          /\ hub' = [hub EXCEPT !.stats.communication_errors = @ + 1]
          /\ ret' = "False"
          /\ UNCHANGED <<pending_messages, dead_letter_queue, router_stats>>
     ELSE /\ RouteMessageEffect(m, msg)
          /\ IF RouteAccepts(msg)
             THEN /\ ret' = "True"
                  /\ hub' = [hub EXCEPT
                       !.stats.messages_sent = @ + 1,
                       !.message_count[msg.sender_id] =
                          IF msg.sender_id \in hub.registered_agents THEN @ + 1 ELSE @]
             ELSE /\ ret' = "False"
                  /\ hub' = [hub EXCEPT !.stats.communication_errors = @ + 1]

\* a caller hands a message it constructed to hub.send_message
HubSendMessage(sender, receiver, mtype, payload, session) ==
  /\ FreshId # NoMsg
  /\ HubSendEffect(FreshId,
        [NewMessage(sender, receiver, mtype, payload, "normal", NoTtl, DefaultMaxRetries, now)
           EXCEPT !.session_id = session, !.via = "send_message"])
  /\ op' = "send_message" /\ invoked' = {}
  /\ UNCHANGED <<now, queueVars, routes, agent_handlers, broadcast_handlers, retry_queue,
                 router_running, processed_count, flush_pc, failing, attempts, requeues>>

\* AgentCommunicationHub.send_message(message) with a message its caller
\* built at time ts with a priority and a ttl
HubSendBuilt(sender, receiver, priority, ttl, ts) ==
  /\ FreshId # NoMsg
  /\ HubSendEffect(FreshId,
        [NewMessage(sender, receiver, "task_assignment", Payload(TRUE, "task", "t"),
                    priority, ttl, DefaultMaxRetries, ts)
           EXCEPT !.session_id = "session", !.via = "send_message"])
  /\ op' = "send_message" /\ invoked' = {}
  /\ UNCHANGED <<now, queueVars, routes, agent_handlers, broadcast_handlers, retry_queue,
                 router_running, processed_count, flush_pc, failing, attempts, requeues>>

\* dequeue(timeout=0.1) sleeps 0.1 s after a pass that found nothing, so it
\* makes two passes, or three when the timer fires a little early
PullPasses == {2, 3}

\* AgentCommunicationHub.get_agent_messages(agent_id, count); ret is the
\* list returned
HubGetAgentMessages(a, count, passes) ==
  /\ IF a \notin hub.agent_queues \/ ManagedQueue(a) = NoQueue
     THEN /\ ret' = <<>>
          /\ UNCHANGED queues
     ELSE LET q == ManagedQueue(a)
              r == IF queues[q].is_running
                   THEN Drain(queues[q].messages, count, passes, now)
                   ELSE [got |-> <<>>, messages |-> queues[q].messages]
          IN /\ ret' = r.got
             /\ queues' = [queues EXCEPT ![q].messages = r.messages]
  /\ op' = CallOp("get_agent_messages", a) /\ arg' = count /\ invoked' = {}
  /\ UNCHANGED <<now, msgs, qm_queues, files, routerVars, hub, failing, attempts, requeues>>

\* MessageRouter.flush_queues, either of its while loops over the buffer
\* pend, as a fold over the state st the handlers change (the queue objects,
\* the hub, the attempts made, the handlers called); the result of
\* _deliver_message is not looked at
RECURSIVE FlushFold(_, _)
FlushFold(pend, st) ==
  IF pend = <<>> THEN st
  ELSE LET m   == Head(pend)
           out == DeliverMessage(msgs[m])
           acc == out.enq # NoQueue /\ EnqueueAccepts(st.queues[out.enq], msgs[m], now)
       IN FlushFold(Tail(pend),
            [queues   |-> IF out.enq # NoQueue
                          THEN [st.queues EXCEPT ![out.enq] = EnqueueResult(@, m, msgs[m], now)]
                          ELSE st.queues,
             hub      |-> IF acc THEN [st.hub EXCEPT !.stats.messages_delivered = @ + 1]
                          ELSE st.hub,
             attempts |-> [st.attempts EXCEPT ![m] = @ + 1],
             invoked  |-> st.invoked \cup out.invoked])

\* flush_all_messages, the loop over one queue: dequeue calls while the
\* queue is not empty, ended by the first that returns None
RECURSIVE DrainAll(_, _, _)
DrainAll(buckets, passes, t) ==
  IF is_empty(buckets) THEN buckets
  ELSE LET r == DequeueCall(buckets, passes, t) IN
       IF r.msg = NoMsg THEN r.messages ELSE DrainAll(r.messages, passes, t)

\* AgentCommunicationHub.flush_all_messages: the router's flush_queues
\* (pending buffer, ready retries, pending buffer again), then the queue of
\* every agent in agent_queues that the queue manager holds
HubFlushAllMessages(passes) ==
  /\ LET st0 == [queues |-> queues, hub |-> hub, attempts |-> attempts, invoked |-> {}]
         st1 == FlushFold(pending_messages, st0)
         st2 == FlushFold(ReadyMessages(retry_queue, now), st1)
         drained == {ManagedQueue(a) : a \in hub.agent_queues} \ {NoQueue}
     IN /\ queues' = [q \in QIds |->
                        IF q \in drained /\ st2.queues[q].is_running
                        THEN [st2.queues[q] EXCEPT !.messages = DrainAll(@, passes, now)]
                        ELSE st2.queues[q]]
        /\ hub' = st2.hub
        /\ attempts' = st2.attempts
        /\ invoked' = st2.invoked
  /\ pending_messages' = <<>>
  /\ retry_queue' = NotReady(retry_queue, now)
  /\ op' = "flush_all_messages" /\ arg' = NoMsg /\ ret' = ""
  /\ UNCHANGED <<now, msgs, qm_queues, files, routes, agent_handlers, broadcast_handlers,
                 dead_letter_queue, router_stats, router_running, processed_count,
                 flush_pc, failing, requeues>>

\* an unknown sender counted as a communication error
HubSenderUnknownCounted ==
  /\ arg' = NoMsg /\ ret' = "False"
  /\ hub' = [hub EXCEPT !.stats.communication_errors = @ + 1]
  /\ UNCHANGED <<msgs, pending_messages, dead_letter_queue, router_stats>>

\* a sender that has no message builder: the convenience senders return False
HubSenderUnknown ==
  /\ arg' = NoMsg /\ ret' = "False"
  /\ UNCHANGED <<msgs, hub, pending_messages, dead_letter_queue, router_stats>>

\* the call a message was built by, kept with the message
ResearchCall(sender, receiver, brief) ==
  "send_research_request(" \o sender \o "," \o receiver \o "," \o brief \o ")"

\* AgentCommunicationHub.send_research_request, with
\* MessageBuilder.research_request
HubSendResearchRequest(sender, receiver, brief) ==
  /\ IF sender \notin hub.message_builders THEN HubSenderUnknown
     ELSE FreshId # NoMsg /\ HubSendEffect(FreshId,
            [NewMessage(sender, receiver, "research_request",
                        Payload(TRUE, "subtopic_brief", brief), "high",
                        TtlResearchRequest, DefaultMaxRetries, now)
               EXCEPT !.via = ResearchCall(sender, receiver, brief)])
  /\ op' = CallOp("send_research_request", sender) /\ invoked' = {}
  /\ UNCHANGED <<now, queueVars, routes, agent_handlers, broadcast_handlers, retry_queue,
                 router_running, processed_count, flush_pc, failing, attempts, requeues>>

\* AgentCommunicationHub.broadcast_message
HubBroadcastMessage(sender, mtype, payload) ==
  /\ IF sender \notin hub.message_builders THEN HubSenderUnknown
     ELSE FreshId # NoMsg /\ HubSendEffect(FreshId,
            [NewMessage(sender, Broadcast, mtype, payload, "normal", NoTtl,
                        DefaultMaxRetries, now)
               EXCEPT !.via = "broadcast_message"])
  /\ op' = CallOp("broadcast_message", sender) /\ invoked' = {}
  /\ UNCHANGED <<now, queueVars, routes, agent_handlers, broadcast_handlers, retry_queue,
                 router_running, processed_count, flush_pc, failing, attempts, requeues>>

\* The convenience senders send_task_assignment, send_research_result,
\* send_quality_feedback and send_status_update: the sender's builder builds
\* msg, which goes to send_message
HubConvenienceSend(name, sender, msg) ==
  /\ IF sender \notin hub.message_builders THEN HubSenderUnknown
     ELSE FreshId # NoMsg /\ HubSendEffect(FreshId, [msg EXCEPT !.via = name])
  /\ op' = CallOp(name, sender) /\ invoked' = {}
  /\ UNCHANGED <<now, queueVars, routes, agent_handlers, broadcast_handlers, retry_queue,
                 router_running, processed_count, flush_pc, failing, attempts, requeues>>

\* AgentCommunicationHub.send_task_assignment, MessageBuilder.task_assignment
HubSendTaskAssignment(sender, receiver, task_data) ==
  HubConvenienceSend("send_task_assignment", sender,
    NewMessage(sender, receiver, "task_assignment", Payload(TRUE, "task_data", task_data),
               "normal", TtlTaskAssignment, DefaultMaxRetries, now))

\* AgentCommunicationHub.send_research_result, MessageBuilder.research_result
HubSendResearchResult(sender, receiver, findings) ==
  HubConvenienceSend("send_research_result", sender,
    NewMessage(sender, receiver, "research_result",
               Payload(TRUE, "research_findings", findings),
               "high", NoTtl, DefaultMaxRetries, now))

\* AgentCommunicationHub.send_quality_feedback, MessageBuilder.quality_feedback
HubSendQualityFeedback(sender, receiver, assessment) ==
  HubConvenienceSend("send_quality_feedback", sender,
    NewMessage(sender, receiver, "quality_feedback", Payload(TRUE, "assessment", assessment),
               "normal", NoTtl, DefaultMaxRetries, now))

\* AgentCommunicationHub.send_status_update, MessageBuilder.status_update
HubSendStatusUpdate(sender, receiver, status_info) ==
  HubConvenienceSend("send_status_update", sender,
    NewMessage(sender, receiver, "status_update", Payload(TRUE, "status", status_info),
               "low", TtlStatusUpdate, DefaultMaxRetries, now))

\* ---------------------------------------------- standalone queue (SpecQueue)
TestQ == 1

\* LocalMessageQueue.start (persistence disabled)
QueueStart(q) ==
  /\ queues[q].exists
  /\ queues' = [queues EXCEPT ![q] = StartedQueue(@)]
  /\ op' = "other" /\ arg' = NoMsg /\ ret' = "" /\ invoked' = {}
  /\ UNCHANGED <<now, msgs, qm_queues, files, routerVars, hub, failing, attempts, requeues>>

\* LocalMessageQueue.stop (persistence disabled); ret is the line the call
\* logs, none on the early return
QueueStop(q) ==
  /\ queues[q].exists
  /\ queues' = [queues EXCEPT ![q] = StoppedQueue(@)]
  /\ ret' = IF queues[q].is_running THEN "Message queue stopped" ELSE ""
  /\ op' = "queue_stop" /\ arg' = NoMsg /\ invoked' = {}
  /\ UNCHANGED <<now, msgs, qm_queues, files, routerVars, hub, failing, attempts, requeues>>

\* LocalMessageQueue.enqueue(message), called by a producer with a message it
\* constructed at time ts <= now. A rejected message is referenced by nobody
\* afterwards, so it is not kept in the heap.
Enqueue(q, priority, ttl, ts) ==
  /\ queues[q].exists
  /\ FreshId # NoMsg
  /\ LET m   == FreshId
         msg == NewMessage("s", "r", "heartbeat", EmptyPayload, priority, ttl, 3, ts)
         ok  == EnqueueAccepts(queues[q], msg, now)
     IN /\ queues' = [queues EXCEPT ![q] = EnqueueResult(@, m, msg, now)]
        /\ msgs' = IF ok THEN [msgs EXCEPT ![m] = msg] ELSE msgs
        /\ ret' = IF ok THEN "True" ELSE "False"
        /\ arg' = IF ok THEN m ELSE NoMsg
  /\ op' = "enqueue" /\ invoked' = {}
  /\ UNCHANGED <<now, qm_queues, files, routerVars, hub, failing, attempts, requeues>>

\* LocalMessageQueue.dequeue(timeout): one pass of its while loop. A pass that
\* finds a message returns it. A pass that finds none yields None: the call
\* ends there when the timeout has elapsed, and otherwise sleeps 0.1 s and
\* runs its next pass, which is a later Dequeue step.
\* A queue that is not running returns None at once.
Dequeue(q) ==
  /\ queues[q].exists
  /\ IF ~queues[q].is_running
     THEN /\ ret' = "None" /\ arg' = NoMsg
          /\ UNCHANGED queues
     ELSE LET r == DequeuePass(queues[q].messages, 1, now) IN
          /\ queues' = [queues EXCEPT ![q].messages = r.messages]
          /\ arg' = r.msg
          /\ ret' = IF r.msg # NoMsg THEN "message" ELSE "None"
  /\ op' = "dequeue" /\ invoked' = {}
  /\ UNCHANGED <<now, msgs, qm_queues, files, routerVars, hub, failing, attempts, requeues>>

\* LocalMessageQueue._cleanup_loop: one sweep
QueueCleanup(q) ==
  /\ queues[q].exists /\ queues[q].is_running
  /\ queues' = [queues EXCEPT ![q].messages = CleanupBuckets(@, now)]
  /\ op' = "other" /\ arg' = NoMsg /\ ret' = "" /\ invoked' = {}
  /\ UNCHANGED <<now, msgs, qm_queues, files, routerVars, hub, failing, attempts, requeues>>

\* LocalMessageQueue.enqueue(message) called by a producer that keeps its
\* reference to the message, accepted or not
Offer(q, priority, ttl, ts) ==
  /\ queues[q].exists
  /\ FreshId # NoMsg
  /\ LET m   == FreshId
         msg == NewMessage("s", "r", "heartbeat", EmptyPayload, priority, ttl, 3, ts)
     IN /\ queues' = [queues EXCEPT ![q] = EnqueueResult(@, m, msg, now)]
        /\ msgs' = [msgs EXCEPT ![m] = msg]
        /\ ret' = IF EnqueueAccepts(queues[q], msg, now) THEN "True" ELSE "False"
        /\ arg' = m
  /\ op' = "offer" /\ invoked' = {}
  /\ UNCHANGED <<now, qm_queues, files, routerVars, hub, failing, attempts, requeues>>

\* LocalMessageQueue.reject_message(message, requeue) called by the holder of
\* a message that is not in the queue
Reject(q, m, requeue) ==
  /\ queues[q].exists
  /\ msgs[m].created /\ ~InBuckets(queues[q].messages, m)
  /\ LET msg == [msgs[m] EXCEPT !.status = "failed"] IN
     /\ msgs' = [msgs EXCEPT ![m] = msg]
     /\ IF requeue /\ can_retry(msg, now)
        THEN /\ queues' = [queues EXCEPT
                             ![q] = [EnqueueResult(@, m, msg, now)
                                       EXCEPT !.stats.messages_rejected = @ + 1]]
             /\ ret' = IF EnqueueAccepts(queues[q], msg, now) THEN "True" ELSE "False"
             /\ requeues' = IF EnqueueAccepts(queues[q], msg, now)
                            THEN [requeues EXCEPT ![m] = @ + 1] ELSE requeues
        ELSE /\ queues' = [queues EXCEPT ![q].stats.messages_rejected = @ + 1]
             /\ ret' = ""
             /\ UNCHANGED requeues
  /\ op' = "reject" /\ arg' = m /\ invoked' = {}
  /\ UNCHANGED <<now, qm_queues, files, routerVars, hub, failing, attempts>>

\* what the consumer loop does with the value its handler returned ("True",
\* "False", "None" for any other value) or with the exception it raised
Acks(q, result) == result # "raise" /\ (q.auto_acknowledge \/ result = "True")
Rejects(q, result) == result = "raise" \/ (~Acks(q, result) /\ result = "False")

\* a loop that acknowledges on True only, whatever the configuration
HandledStatusByResult(q, result, old) ==
  IF result = "True" THEN "acknowledged"
  ELSE IF result \in {"False", "raise"} THEN "failed" ELSE old

\* acknowledge_message / reject_message: the status of the handled message
HandledStatus(q, result, old) ==
  IF Acks(q, result) THEN "acknowledged"
  ELSE IF Rejects(q, result) THEN "failed" ELSE old

\* a loop that ends when its handler raises
HandledQueueLoopEnds(q, c, result) ==
  [q EXCEPT !.consumer_tasks[c] = IF result = "raise" THEN [pc |-> "done", msg |-> NoMsg]
                                  ELSE NewTask,
            !.stats.messages_acknowledged = @ + (IF Acks(q, result) THEN 1 ELSE 0),
            !.stats.messages_rejected = @ + (IF Rejects(q, result) THEN 1 ELSE 0)]

\* the queue after consumer c's loop handled a message: the counters of
\* acknowledge_message / reject_message, the loop back at its head
HandledQueue(q, c, result) ==
  [q EXCEPT !.consumer_tasks[c] = NewTask,
            !.stats.messages_acknowledged = @ + (IF Acks(q, result) THEN 1 ELSE 0),
            !.stats.messages_rejected = @ + (IF Rejects(q, result) THEN 1 ELSE 0)]

\* LocalMessageQueue.start_consumer on the queue object q
StartedConsumer(q, c) ==
  IF c \notin q.consumers \/ c \in TaskIds(q) THEN q
  ELSE [q EXCEPT !.consumer_tasks[c] = NewTask, !.stats.consumers_active = @ + 1]

\* LocalMessageQueue.add_consumer(consumer_id, handler, auto_start)
AddConsumer(q, c, auto_start) ==
  /\ queues[q].exists
  /\ IF c \in queues[q].consumers
     THEN /\ UNCHANGED queues
          /\ ret' = "False"
     ELSE /\ queues' = [queues EXCEPT ![q] =
                          LET added == [@ EXCEPT !.consumers = @ \cup {c}]
                          IN IF auto_start THEN StartedConsumer(added, c) ELSE added]
          /\ ret' = "True"
  /\ op' = "add_consumer" /\ arg' = NoMsg /\ invoked' = {}
  /\ UNCHANGED <<now, msgs, qm_queues, files, routerVars, hub, failing, attempts, requeues>>

\* LocalMessageQueue.start_consumer(consumer_id)
StartConsumer(q, c) ==
  /\ queues[q].exists
  /\ queues' = [queues EXCEPT ![q] = StartedConsumer(@, c)]
  /\ ret' = IF c \in queues[q].consumers THEN "True" ELSE "False"
  /\ op' = "start_consumer" /\ arg' = NoMsg /\ invoked' = {}
  /\ UNCHANGED <<now, msgs, qm_queues, files, routerVars, hub, failing, attempts, requeues>>

\* LocalMessageQueue.stop_consumer(consumer_id): the task is cancelled
StopConsumer(q, c) ==
  /\ queues[q].exists
  /\ IF c \notin TaskIds(queues[q])
     THEN /\ UNCHANGED queues
          /\ ret' = "False"
     ELSE /\ queues' = [queues EXCEPT ![q].consumer_tasks[c] = NoTask,
                                      ![q].stats.consumers_active = @ - 1]
          /\ ret' = "True"
  /\ op' = "stop_consumer" /\ arg' = NoMsg /\ invoked' = {}
  /\ UNCHANGED <<now, msgs, qm_queues, files, routerVars, hub, failing, attempts, requeues>>

\* LocalMessageQueue.remove_consumer(consumer_id)
RemoveConsumer(q, c) ==
  /\ queues[q].exists
  /\ IF c \notin queues[q].consumers
     THEN /\ UNCHANGED queues
          /\ ret' = "False"
     ELSE /\ queues' = [queues EXCEPT ![q].consumer_tasks[c] = NoTask,
                                      ![q].consumers = @ \ {c}]
          /\ ret' = "True"
  /\ op' = "remove_consumer" /\ arg' = NoMsg /\ invoked' = {}
  /\ UNCHANGED <<now, msgs, qm_queues, files, routerVars, hub, failing, attempts, requeues>>

\* _consumer_loop of consumer c: one pass of dequeue(timeout=1.0); with a
\* message the loop enters the handler, without one it stays in dequeue
ConsumerTake(q, c) ==
  /\ queues[q].exists /\ queues[q].is_running
  /\ queues[q].consumer_tasks[c].pc = "waiting"
  /\ LET r == DequeuePass(queues[q].messages, 1, now) IN
     /\ queues' = [queues EXCEPT
                     ![q].messages = r.messages,
                     ![q].consumer_tasks[c] =
                        IF r.msg = NoMsg THEN NewTask ELSE [pc |-> "handling", msg |-> r.msg]]
     /\ arg' = r.msg
  /\ op' = "take" /\ ret' = "" /\ invoked' = {}
  /\ UNCHANGED <<now, msgs, qm_queues, files, routerVars, hub, failing, attempts, requeues>>

\* _consumer_loop of consumer c: `while self.is_running` is false
ConsumerExit(q, c) ==
  /\ queues[q].exists /\ ~queues[q].is_running
  /\ queues[q].consumer_tasks[c].pc = "waiting"
  /\ queues' = [queues EXCEPT ![q].consumer_tasks[c] = [pc |-> "done", msg |-> NoMsg]]
  /\ op' = "other" /\ arg' = NoMsg /\ ret' = "" /\ invoked' = {}
  /\ UNCHANGED <<now, msgs, qm_queues, files, routerVars, hub, failing, attempts, requeues>>

\* _consumer_loop of consumer c: the handler returns result or raises, the
\* loop acknowledges or rejects the message and goes back to its head
ConsumerHandle(q, c, result) ==
  /\ queues[q].exists
  /\ queues[q].consumer_tasks[c].pc = "handling"
  /\ LET m == queues[q].consumer_tasks[c].msg IN
     /\ msgs' = [msgs EXCEPT ![m].status = HandledStatus(queues[q], result, @)]
     /\ queues' = [queues EXCEPT ![q] = HandledQueue(@, c, result)]
     /\ arg' = m
  /\ op' = "consume" /\ ret' = result /\ invoked' = {}
  /\ UNCHANGED <<now, qm_queues, files, routerVars, hub, failing, attempts, requeues>>

InitQueue ==
  /\ InitMessages /\ InitRouterState /\ InitHubState
  /\ queues = [q \in QIds |-> IF q = TestQ THEN NewQueue("test_queue", MaxQueueSize + 1)
                              ELSE NoQueueObj]
  /\ qm_queues = EmptyDict
  /\ files = EmptyDict

NextQueue ==
  \/ Tick
  \/ QueueStart(TestQ)
  \/ QueueStop(TestQ)
  \/ \E p \in PrioritySet, in \in MessageInputs : Enqueue(TestQ, p, in.ttl, in.timestamp)
  \/ Dequeue(TestQ)
  \/ QueueCleanup(TestQ)

SpecQueue == InitQueue /\ [][NextQueue]_vars

\* ------------------------------------------ persistence (SpecPersist)
\* A2AMessage.to_json: json.dumps(self.to_dict(), indent=2) spreads the
\* object over several lines of text: the line of the opening brace, the
\* lines of the fields, the line of the closing brace. A line is modelled by
\* the message it belongs to, that message's to_dict and the part it holds.
JsonParts == <<"{", "fields", "}">>
to_json(m, msg) ==
  [i \in 1..Len(JsonParts) |-> [id |-> m, data |-> msg, text |-> JsonParts[i]]]

\* a from_json that makes a message of the line that opens an object
ParsesOpening(line) == line.text = "{"

\* A2AMessage.from_json(line): json.loads answers an object only for a line
\* that holds a whole object; every other line raises
Parses(line) == line.text = "{fields}"

\* self.messages.values(): the buckets in the order of the dict
Flatten(buckets) ==
  buckets["urgent"] \o buckets["high"] \o buckets["normal"] \o buckets["low"]

RECURSIVE JsonLines(_)
JsonLines(ids) ==
  IF ids = <<>> THEN <<>>
  ELSE to_json(Head(ids), msgs[Head(ids)]) \o JsonLines(Tail(ids))

\* _persist_messages: the file is opened with 'w' and every message of every
\* bucket is written
PersistMessages(q) == JsonLines(Flatten(q.messages))

\* _load_persisted_messages: every line that parses to a message that is not
\* expired is appended to the bucket of its priority; a line that raises is
\* logged and skipped
RECURSIVE LoadPersisted(_, _, _)
LoadPersisted(buckets, lines, t) ==
  IF lines = <<>> THEN buckets
  ELSE LET line == Head(lines)
           b2   == IF Parses(line) /\ ~is_expired(line.data, t)
                   THEN [buckets EXCEPT ![line.data.priority] = Append(@, line.id)]
                   ELSE buckets
       IN LoadPersisted(b2, Tail(lines), t)

\* the messages from_json made while loading
LoadedMessages(lines, t) ==
  {i \in 1..Len(lines) : Parses(lines[i]) /\ ~is_expired(lines[i].data, t)}

\* LocalMessageQueue(queue_name, config) with persistence_enabled and a
\* persistence_path: a new queue object
ConstructQueue(q, name) ==
  /\ ~queues[q].exists
  /\ queues' = [queues EXCEPT ![q] = NewQueue(name, MaxQueueSize + 1)]
  /\ op' = "other" /\ arg' = NoMsg /\ ret' = "" /\ invoked' = {}
  /\ UNCHANGED <<now, msgs, qm_queues, files, routerVars, hub, failing, attempts, requeues>>

\* LocalMessageQueue.start with persistence enabled
PersistentStart(q) ==
  /\ queues[q].exists
  /\ LET name  == queues[q].name
         lines == IF name \in DOMAIN files THEN files[name] ELSE <<>>
     IN IF queues[q].is_running
        THEN UNCHANGED <<queues, msgs>>
        ELSE /\ queues' = [queues EXCEPT ![q] =
                            [StartedQueue(@) EXCEPT
                               !.messages = LoadPersisted(@, lines, now)]]
             /\ msgs' = [m \in MsgIds |->
                          IF \E i \in LoadedMessages(lines, now) : lines[i].id = m
                          THEN (CHOOSE line \in {lines[i] : i \in LoadedMessages(lines, now)} :
                                  line.id = m).data
                          ELSE msgs[m]]
  /\ ret' = IF queues[q].is_running THEN "" ELSE "Message queue started"
  /\ op' = "queue_start" /\ arg' = NoMsg /\ invoked' = {}
  /\ UNCHANGED <<now, qm_queues, files, routerVars, hub, failing, attempts, requeues>>

\* LocalMessageQueue.stop with persistence enabled
PersistentStop(q) ==
  /\ queues[q].exists
  /\ queues' = [queues EXCEPT ![q] = StoppedQueue(@)]
  /\ files' = IF queues[q].is_running
              THEN Put(files, queues[q].name, PersistMessages(queues[q]))
              ELSE files
  /\ ret' = IF queues[q].is_running THEN "Message queue stopped" ELSE ""
  /\ op' = "queue_stop" /\ arg' = NoMsg /\ invoked' = {}
  /\ UNCHANGED <<now, msgs, qm_queues, routerVars, hub, failing, attempts, requeues>>

\* LocalMessageQueue.enqueue with persistence enabled: _persist_message opens
\* the file with 'a' and writes the accepted message
PersistentEnqueue(q, priority, ttl, ts) ==
  /\ queues[q].exists
  /\ FreshId # NoMsg
  /\ LET m    == FreshId
         msg  == NewMessage("s", "r", "heartbeat", EmptyPayload, priority, ttl, 3, ts)
         ok   == EnqueueAccepts(queues[q], msg, now)
         name == queues[q].name
         old  == IF name \in DOMAIN files THEN files[name] ELSE <<>>
     IN /\ queues' = [queues EXCEPT ![q] = EnqueueResult(@, m, msg, now)]
        /\ msgs' = IF ok THEN [msgs EXCEPT ![m] = msg] ELSE msgs
        /\ files' = IF ok THEN Put(files, name, old \o to_json(m, msg)) ELSE files
        /\ ret' = IF ok THEN "True" ELSE "False"
        /\ arg' = IF ok THEN m ELSE NoMsg
  /\ op' = "enqueue" /\ invoked' = {}
  /\ UNCHANGED <<now, qm_queues, routerVars, hub, failing, attempts, requeues>>

InitPersist ==
  /\ InitMessages /\ InitRouterState /\ InitHubState
  /\ queues = [q \in QIds |-> IF q = TestQ THEN NewQueue("test_queue", MaxQueueSize + 1)
                              ELSE NoQueueObj]
  /\ qm_queues = EmptyDict
  /\ files = EmptyDict

NextPersist ==
  \/ Tick
  \/ \E q \in QIds : PersistentStart(q)
  \/ \E q \in QIds : PersistentStop(q)
  \/ \E p \in {"high", "normal"}, in \in MessageInputs :
        FreshId <= MaxRouted /\ PersistentEnqueue(TestQ, p, in.ttl, in.timestamp)
  \/ Dequeue(TestQ)
  \/ /\ ~queues[TestQ].is_running /\ "test_queue" \in DOMAIN files
     /\ \E q \in QIds : ConstructQueue(q, "test_queue")

SpecPersist == InitPersist /\ [][NextPersist]_vars

\* ----------------------------------------- queue capacity (SpecCapacity)
\* a queue that is smaller than the number of messages offered to it
InitCapacity ==
  /\ InitMessages /\ InitRouterState /\ InitHubState
  /\ queues = [q \in QIds |-> IF q = TestQ THEN NewQueue("test_queue", MaxQueueSize)
                              ELSE NoQueueObj]
  /\ qm_queues = EmptyDict
  /\ files = EmptyDict

NextCapacity ==
  \/ Tick
  \/ QueueStart(TestQ)
  \/ \E p \in {"high", "low"}, in \in MessageInputs : Offer(TestQ, p, in.ttl, in.timestamp)
  \/ Dequeue(TestQ)
  \/ \E m \in MsgIds, requeue \in BOOLEAN :
       queues[TestQ].stats.messages_rejected < MaxRejects /\ Reject(TestQ, m, requeue)
  \/ QueueCleanup(TestQ)

SpecCapacity == InitCapacity /\ [][NextCapacity]_vars

\* ------------------------------------------ queue consumers (SpecConsumer)
HandlerResults == {"True", "False", "None", "raise"}

\* a queue configured with auto_acknowledge on (the default) or off
InitConsumer ==
  /\ InitMessages /\ InitRouterState /\ InitHubState
  /\ \E aa \in BOOLEAN :
       queues = [q \in QIds |->
                   IF q = TestQ
                   THEN [NewQueue("test_queue", MaxQueueSize + 1) EXCEPT !.auto_acknowledge = aa]
                   ELSE NoQueueObj]
  /\ qm_queues = EmptyDict
  /\ files = EmptyDict

CanStart == queues[TestQ].stats.consumers_active < MaxConsumerStarts

NextConsumer ==
  \/ QueueStart(TestQ)
  \/ QueueStop(TestQ)
  \/ \E p \in {"high", "low"} : Enqueue(TestQ, p, NoTtl, now)
  \/ \E c \in ConsumerIds, auto_start \in BOOLEAN : CanStart /\ AddConsumer(TestQ, c, auto_start)
  \/ \E c \in ConsumerIds : CanStart /\ StartConsumer(TestQ, c)
  \/ \E c \in ConsumerIds : StopConsumer(TestQ, c)
  \/ \E c \in ConsumerIds : RemoveConsumer(TestQ, c)
  \/ \E c \in ConsumerIds : ConsumerTake(TestQ, c)
  \/ \E c \in ConsumerIds : ConsumerExit(TestQ, c)
  \/ \E c \in ConsumerIds, result \in HandlerResults : ConsumerHandle(TestQ, c, result)

SpecConsumer == InitConsumer /\ [][NextConsumer]_vars

\* ------------------------------------- starting and stopping (SpecStop)
\* a hub with its router and the queues of its agents, and a queue of its
\* own with a consumer
InitStop ==
  /\ InitMessages /\ InitRouterState /\ InitHubState
  /\ queues = [q \in QIds |-> IF q = TestQ THEN NewQueue("test_queue", MaxQueueSize)
                              ELSE NoQueueObj]
  /\ qm_queues = EmptyDict
  /\ files = EmptyDict

NextStop ==
  \/ router_stats.routes_registered < 4 * MaxStarts /\ HubStart
  \/ HubStop
  \/ hub.stats.agents_registered < MaxRegistrations /\ HubRegisterAgent("a1")
  \/ HubUnregisterAgent("a1")
  \/ StartProcessing
  \/ StopProcessing
  \/ QueueStart(TestQ)
  \/ QueueStop(TestQ)
  \/ Enqueue(TestQ, "normal", NoTtl, now)
  \/ \E c \in ConsumerIds : CanStart /\ AddConsumer(TestQ, c, TRUE)
  \/ \E c \in ConsumerIds : ConsumerTake(TestQ, c)
  \/ \E c \in ConsumerIds : ConsumerExit(TestQ, c)
  \/ \E c \in ConsumerIds : ConsumerHandle(TestQ, c, "True")

SpecStop == InitStop /\ [][NextStop]_vars

\* --------------------------------------------------- router (SpecRouter)
InitRouter ==
  /\ InitMessages /\ InitRouterState /\ InitHubState
  /\ queues = [q \in QIds |-> NoQueueObj]
  /\ qm_queues = EmptyDict
  /\ files = EmptyDict

NextRouter ==
  \/ Tick
  \/ \E in \in MessageInputs, r \in {0, MaxRetries} :
        FreshId <= MaxRouted /\ RouteMessage("a1", "task_assignment", in.ttl, in.timestamp, r)
  \/ StartProcessing
  \/ StopProcessing
  \/ ProcessPending
  \/ LoopTail
  \/ RegisterAgentHandler("a1", UserHandler("h1"))
  \/ SetFailing("h1")

SpecRouter == InitRouter /\ [][NextRouter]_vars

\* --------------------------------------- the running loop (SpecLive)
\* a recorded time seen from a clock whose origin has moved on by one second
Earlier(t) == IF t > 0 THEN t - 1 ELSE t

\* The clock advances without end. Once the model's clock stands at MaxTime
\* the origin of time moves on by one second instead: every recorded time is
\* lowered by one and kept at 0 from there on. A message that old has
\* outlived every ttl the inputs use, so no answer of is_expired changes.
Elapse ==
  IF now < MaxTime THEN Tick
  ELSE /\ msgs' = [m \in MsgIds |->
                    [msgs[m] EXCEPT !.timestamp = Earlier(@),
                                    !.dead_letter_time = Earlier(@)]]
       /\ retry_queue' = [i \in 1..Len(retry_queue) |->
                           <<retry_queue[i][1], Earlier(retry_queue[i][2])>>]
       /\ op' = "other" /\ arg' = NoMsg /\ ret' = "" /\ invoked' = {}
       /\ UNCHANGED <<now, queueVars, routes, agent_handlers, broadcast_handlers,
                      pending_messages, dead_letter_queue, router_stats,
                      router_running, processed_count, flush_pc, hub, failing,
                      attempts, requeues>>

NextLive ==
  \/ Elapse
  \/ ~router_running /\ StartProcessing
  \/ \E in \in MessageInputs, r \in {0, MaxRetries} :
        FreshId <= MaxRouted /\ RouteMessage("a1", "task_assignment", in.ttl, in.timestamp, r)
  \/ ProcessPending
  \/ LoopTail
  \/ RegisterAgentHandler("a1", UserHandler("h1"))
  \/ SetFailing("h1")

\* _processing_loop runs as an asyncio task of its own: once started it keeps
\* taking its turns, and the clock keeps advancing
SpecLive ==
  /\ InitRouter /\ [][NextLive]_vars
  /\ WF_vars(Elapse) /\ WF_vars(ProcessPending) /\ WF_vars(LoopTail)

\* ------------------------------------------ message methods (SpecMessage)
\* A2AMessage(...) by a caller that chooses ttl, max_retries, status and
\* session_id
Construct(ttl, max_retries, status, session) ==
  /\ FreshId # NoMsg
  /\ msgs' = [msgs EXCEPT ![FreshId] =
               [NewMessage("A", "B", "task_assignment", Payload(TRUE, "task", "t"),
                           "high", ttl, max_retries, now)
                  EXCEPT !.status = status, !.session_id = session]]
  /\ op' = "construct" /\ arg' = FreshId /\ ret' = "" /\ invoked' = {}
  /\ UNCHANGED <<now, queueVars, routerVars, hub, failing, attempts, requeues>>

\* message.is_expired()
IsExpired(m) ==
  /\ msgs[m].created
  /\ ret' = IF is_expired(msgs[m], now) THEN "True" ELSE "False"
  /\ op' = "is_expired" /\ arg' = m /\ invoked' = {}
  /\ UNCHANGED <<now, msgs, queueVars, routerVars, hub, failing, attempts, requeues>>

\* message.can_retry()
CanRetry(m) ==
  /\ msgs[m].created
  /\ ret' = IF can_retry(msgs[m], now) THEN "True" ELSE "False"
  /\ op' = "can_retry" /\ arg' = m /\ invoked' = {}
  /\ UNCHANGED <<now, msgs, queueVars, routerVars, hub, failing, attempts, requeues>>

\* message.mark_retry()
MarkRetry(m) ==
  /\ msgs[m].created
  /\ msgs' = [msgs EXCEPT ![m] = mark_retry(@)]
  /\ op' = "mark_retry" /\ arg' = m /\ ret' = "" /\ invoked' = {}
  /\ UNCHANGED <<now, queueVars, routerVars, hub, failing, attempts, requeues>>

\* message.create_reply(sender_id, payload, message_type); arg is the
\* original, ret the message_id of the reply
CreateReply(m, sender_id, mtype) ==
  /\ msgs[m].created /\ FreshId # NoMsg
  /\ msgs' = [msgs EXCEPT ![FreshId] =
               create_reply(msgs[m], m, sender_id, Payload(TRUE, "result", "r"), mtype, now)]
  /\ op' = CallOp("create_reply", sender_id) /\ arg' = m /\ ret' = FreshId /\ invoked' = {}
  /\ UNCHANGED <<now, queueVars, routerVars, hub, failing, attempts, requeues>>

TtlInputs == {NoTtl} \cup (0..MaxTtl)

NextMessage ==
  \/ Tick
  \/ \E ttl \in TtlInputs, r \in {0, MaxRetries + 1}, st \in {"pending", "failed"},
        se \in {"s1", "s2"} :
        FreshId = 1 /\ Construct(ttl, r, st, se)
  \/ \E m \in MsgIds : IsExpired(m)
  \/ \E m \in MsgIds : CanRetry(m)
  \/ msgs[1].retry_count <= msgs[1].max_retries /\ MarkRetry(1)
  \/ \E m \in MsgIds, a \in {"B", "C"}, mtype \in {"task_result", "error_notification"} :
        CreateReply(m, a, mtype)

SpecMessage == InitRouter /\ [][NextMessage]_vars

\* ------------------------------------------- route patterns (SpecMatch)
\* MessageRoute._pattern_match(self.pattern, key) of the route at position
\* i, the key given as its dot-separated segments; arg is the pair of the
\* pattern and the key
MatchKey(i, key) ==
  /\ i \in 1..Len(routes)
  /\ arg' = <<routes[i].pattern, key>>
  /\ ret' = IF pattern_match(routes[i].pattern, key) THEN "True" ELSE "False"
  /\ op' = "matches" /\ invoked' = {}
  /\ UNCHANGED <<now, msgs, queueVars, routerVars, hub, failing, attempts, requeues>>

\* segment sequences of bounded length: patterns over two names and the two
\* wildcards, keys over the two names
Segments == {"a", "b"}
SeqsUpTo(S, n) == UNION {[1..k -> S] : k \in 1..n}
PatternInputs == SeqsUpTo(Segments \cup {"*", "**"}, MaxSegments)
KeyInputs == SeqsUpTo(Segments, MaxSegments)

NextMatch ==
  \/ \E pat \in PatternInputs : routes = <<>> /\ RegisterRoute(pat, UserHandler("h1"), 1)
  \/ \E key \in KeyInputs : MatchKey(1, key)

SpecMatch == InitRouter /\ [][NextMatch]_vars

\* ------------------------- handlers, routes and broadcast (SpecDispatch)
Patterns == {<<"*">>, <<"task_assignment", "*">>, <<"status_update", "a1">>}

NextDispatch ==
  \/ \E mtype \in {"task_assignment", "status_update"} :
        FreshId <= MaxRouted /\ RouteMessage("a1", mtype, NoTtl, now, 0)
  \/ StartProcessing
  \/ ProcessPending
  \/ LoopTail
  \/ \E pat \in Patterns, pr \in {1, 2} : RegisterRoute(pat, UserHandler("h2"), pr)
  \/ RegisterAgentHandler("a1", UserHandler("h1"))
  \/ UnregisterAgentHandler("a1")
  \/ \E h \in UserHandlers : SetFailing(h)

SpecDispatch == InitRouter /\ [][NextDispatch]_vars

NextBroadcast ==
  \/ \E rc \in {"a1", Broadcast} :
        FreshId <= MaxRouted /\ RouteMessage(rc, "status_update", NoTtl, now, MaxRetries)
  \/ StartProcessing
  \/ ProcessPending
  \/ LoopTail
  \/ RegisterRoute(<<"*">>, UserHandler("h1"), 1)
  \/ RegisterAgentHandler("a1", UserHandler("h1"))
  \/ \E h \in UserHandlers : RegisterBroadcastHandler(UserHandler(h))
  \/ \E h \in UserHandlers : UnregisterBroadcastHandler(UserHandler(h))
  \/ \E h \in UserHandlers : SetFailing(h)
  \/ FlushStart
  \/ FlushDeliver
  \/ FlushAdvance

SpecBroadcast == InitRouter /\ [][NextBroadcast]_vars

\* ----------------------------------------- routing and capacity (SpecRoute)
NextRoute ==
  \/ Tick
  \/ \E in \in MessageInputs : RouteMessage("a1", "task_assignment", in.ttl, in.timestamp, 0)
  \/ StartProcessing
  \/ ProcessPending
  \/ LoopTail

SpecRoute == InitRouter /\ [][NextRoute]_vars

\* ------------------------------------------------------- hub (SpecHub)
\* The messages a caller hands to hub.send_message: a well-formed one and
\* one for each way of being malformed.
Good == [sender |-> "a1", receiver |-> "a2", mtype |-> "task_assignment",
         payload |-> Payload(TRUE, "task", "t"), session |-> "session"]
SendInputs ==
  {Good,
   [Good EXCEPT !.sender = ""],
   [Good EXCEPT !.receiver = ""],
   [Good EXCEPT !.session = ""],
   [Good EXCEPT !.payload = EmptyPayload],
   [Good EXCEPT !.payload = Payload(FALSE, "", "text")],
   [Good EXCEPT !.mtype = "bogus"]}

Briefs == {"b1", "b2"}

NextHub ==
  \/ Tick
  \/ HubStart
  \/ \E a \in Agents :
        hub.stats.agents_registered < MaxRegistrations /\ HubRegisterAgent(a)
  \/ \E a \in Agents : HubUnregisterAgent(a)
  \/ \E s, r \in Agents, b \in Briefs :
        s # r /\ FreshId <= MaxRouted /\ HubSendResearchRequest(s, r, b)
  \/ \E s \in Agents :
        FreshId <= MaxRouted
        /\ HubBroadcastMessage(s, "status_update", Payload(TRUE, "note", "n"))
  \/ ProcessPending
  \/ LoopTail

SpecHub == InitRouter /\ [][NextHub]_vars

\* --------------------------------------------- hub.send_message (SpecSend)
NextSend ==
  \/ Tick
  \/ HubStart
  \/ hub.stats.agents_registered < MaxRegistrations /\ HubRegisterAgent("a2")
  \/ \E in \in SendInputs :
        HubSendMessage(in.sender, in.receiver, in.mtype, in.payload, in.session)
  \/ ProcessPending
  \/ LoopTail

SpecSend == InitRouter /\ [][NextSend]_vars

\* --------------------------------------- polling an agent queue (SpecPull)
Counts == {1, 2}

NextPull ==
  \/ Tick
  \/ router_stats.routes_registered = 0 /\ HubStart
  \/ HubStop
  \/ HubRegisterAgent("a2")
  \/ \E p \in {"high", "low"}, ttl \in {NoTtl, 1} :
        /\ hub.is_running /\ "a2" \in hub.registered_agents
        /\ HubSendBuilt("a1", "a2", p, ttl, now)
  \/ ProcessPending
  \/ \E a \in Agents, count \in Counts, passes \in PullPasses :
        HubGetAgentMessages(a, count, passes)

SpecPull == InitRouter /\ [][NextPull]_vars

\* ------------------------------------------ flushing the hub (SpecFlush)
NextFlush ==
  \/ Tick
  \/ router_stats.routes_registered = 0 /\ HubStart
  \/ HubRegisterAgent("a2")
  \/ \E p \in {"high", "low"}, ttl \in {NoTtl, 1} :
        /\ hub.is_running /\ "a2" \in hub.registered_agents
        /\ HubSendBuilt("a1", "a2", p, ttl, now)
  \/ /\ hub.is_running /\ FreshId \in 1..MaxRouted
     /\ HubBroadcastMessage("a2", "status_update", Payload(TRUE, "note", "n"))
  \/ ProcessPending
  \/ LoopTail
  \/ \E passes \in PullPasses : HubFlushAllMessages(passes)

SpecFlush == InitRouter /\ [][NextFlush]_vars

\* ------------------------------------------- hub lifecycle (SpecLifecycle)
\* the bound on the messages built: a registered sender builds one
Room(s) == s \in hub.message_builders => FreshId \in 1..MaxRouted

NextLifecycle ==
  \/ router_stats.routes_registered < 4 * MaxStarts /\ HubStart
  \/ HubStop
  \/ \E a \in Agents :
        hub.stats.agents_registered < MaxRegistrations /\ HubRegisterAgent(a)
  \/ \E a \in Agents : HubUnregisterAgent(a)
  \/ \E s, r \in Agents : s # r /\ Room(s) /\ HubSendResearchResult(s, r, "f")
  \/ ProcessPending

SpecLifecycle == InitRouter /\ [][NextLifecycle]_vars

\* ------------------------------------- convenience senders (SpecSenders)
NextSenders ==
  \/ HubStart
  \/ \E a \in Agents :
        hub.stats.agents_registered < MaxRegistrations /\ HubRegisterAgent(a)
  \/ \E a \in Agents : HubUnregisterAgent(a)
  \/ \E s \in Agents : Room(s) /\ HubSendTaskAssignment(s, "a2", "t")
  \/ \E s \in Agents : Room(s) /\ HubSendResearchRequest(s, "a2", "b1")
  \/ \E s \in Agents : Room(s) /\ HubSendResearchResult(s, "a2", "f")
  \/ \E s \in Agents : Room(s) /\ HubSendQualityFeedback(s, "a2", "q")
  \/ \E s \in Agents : Room(s) /\ HubSendStatusUpdate(s, "a2", "i")
  \/ \E s \in Agents :
        Room(s) /\ HubBroadcastMessage(s, "status_update", Payload(TRUE, "note", "n"))
  \/ ProcessPending

SpecSenders == InitRouter /\ [][NextSenders]_vars

\* ------------------------------- a full agent queue (SpecAgentQueue)
\* The application makes the agent's queue with a small max_size before the
\* agent registers; register_agent's create_queue returns that queue.
NextAgentQueue ==
  \/ Tick
  \/ CreateQueue(QueueName("a1"), MaxQueueSize)
  \/ QueueName("a1") \in DOMAIN qm_queues /\ HubRegisterAgent("a1")
  \/ router_stats.routes_registered = 0 /\ HubStart
  \/ \E in \in MessageInputs, r \in {0, MaxRetries} :
        /\ "a1" \in hub.registered_agents
        /\ RouteMessage("a1", "task_assignment", in.ttl, in.timestamp, r)
  \/ ProcessPending
  \/ LoopTail

SpecAgentQueue == InitRouter /\ [][NextAgentQueue]_vars

\* ------------------------- an agent's queue and a route (SpecHandOver)
NextHandOver ==
  \/ Tick
  \/ hub.stats.agents_registered = 0 /\ HubRegisterAgent("a1")
  \/ ~router_running /\ StartProcessing
  \/ routes = <<>> /\ RegisterRoute(<<"*">>, UserHandler("h1"), 1)
  \/ SetFailing("h1")
  \/ \E in \in MessageInputs, r \in {0, MaxRetries} :
        /\ FreshId <= MaxRouted
        /\ RouteMessage("a1", "task_assignment", in.ttl, in.timestamp, r)
  \/ ProcessPending
  \/ LoopTail

SpecHandOver == InitRouter /\ [][NextHandOver]_vars

\* ------------------------------------------ the retry sweep (SpecRetry)
NextRetry ==
  \/ Tick
  \/ \E r \in {0, MaxRetries} : RouteMessage("a1", "task_assignment", NoTtl, now, r)
  \/ ~router_running /\ StartProcessing
  \/ ProcessPending
  \/ LoopTail
  \/ agent_handlers = EmptyDict /\ RegisterAgentHandler("a1", UserHandler("h1"))
  \/ SetFailing("h1")
  \/ FlushStart
  \/ FlushDeliver
  \/ FlushAdvance

SpecRetry == InitRouter /\ [][NextRetry]_vars

\* ------------------- the router and an agent's consumers (SpecAck)
NextAck ==
  \/ Tick
  \/ hub.stats.agents_registered = 0 /\ HubRegisterAgent("a1")
  \/ ~router_running /\ StartProcessing
  \/ routes = <<>> /\ RegisterRoute(<<"*">>, UserHandler("h1"), 1)
  \/ SetFailing("h1")
  \/ /\ FreshId <= MaxRouted
     /\ RouteMessage("a1", "task_assignment", NoTtl, now, MaxRetries)
  \/ ProcessPending
  \/ LoopTail
  \/ \E c \in ConsumerIds :
        /\ ManagedQueue("a1") # NoQueue
        /\ c \notin queues[ManagedQueue("a1")].consumers
        /\ AddConsumer(ManagedQueue("a1"), c, TRUE)
  \/ \E c \in ConsumerIds :
        ManagedQueue("a1") # NoQueue /\ ConsumerTake(ManagedQueue("a1"), c)
  \/ \E c \in ConsumerIds, result \in {"True", "False"} :
        ManagedQueue("a1") # NoQueue /\ ConsumerHandle(ManagedQueue("a1"), c, result)

SpecAck == InitRouter /\ [][NextAck]_vars

\* ------------------- the takers of an agent's queue (SpecTakers)
NextTakers ==
  \/ router_stats.routes_registered = 0 /\ HubStart
  \/ hub.stats.agents_registered = 0 /\ HubRegisterAgent("a2")
  \/ \E p \in {"high", "low"} :
        /\ hub.is_running /\ "a2" \in hub.registered_agents
        /\ HubSendBuilt("a1", "a2", p, NoTtl, now)
  \/ ProcessPending
  \/ \E c \in ConsumerIds :
        /\ ManagedQueue("a2") # NoQueue
        /\ c \notin queues[ManagedQueue("a2")].consumers
        /\ AddConsumer(ManagedQueue("a2"), c, TRUE)
  \/ \E c \in ConsumerIds :
        ManagedQueue("a2") # NoQueue /\ ConsumerTake(ManagedQueue("a2"), c)
  \/ \E c \in ConsumerIds :
        ManagedQueue("a2") # NoQueue /\ ConsumerHandle(ManagedQueue("a2"), c, "True")
  \/ \E count \in Counts, passes \in PullPasses : HubGetAgentMessages("a2", count, passes)

SpecTakers == InitRouter /\ [][NextTakers]_vars

\* ------------------------------- two hubs of one process (SpecHubs)
NextHubs ==
  \/ router_stats.routes_registered < 4 * MaxStarts /\ HubStart
  \/ HubStop
  \/ \E a \in Agents :
        hub.stats.agents_registered < MaxRegistrations /\ HubRegisterAgent(a)
  \/ \E a \in Agents : HubUnregisterAgent(a)
  \/ router_stats.routes_registered < 4 * MaxStarts /\ PeerStart
  \/ \E a \in Agents : PeerRegisterAgent(a)

SpecHubs == InitRouter /\ [][NextHubs]_vars

\* ------------------------------------------------- rejecting with requeue
\* LocalMessageQueue.enqueue(message), called by a producer with a message it
\* constructed now with the given max_retries
EnqueueWithRetries(q, priority, ttl, max_retries) ==
  /\ queues[q].exists
  /\ FreshId # NoMsg
  /\ LET m   == FreshId
         msg == NewMessage("s", "r", "heartbeat", EmptyPayload, priority, ttl,
                           max_retries, now)
     IN /\ queues' = [queues EXCEPT ![q] = EnqueueResult(@, m, msg, now)]
        /\ msgs' = [msgs EXCEPT ![m] = msg]
        /\ ret' = IF EnqueueAccepts(queues[q], msg, now) THEN "True" ELSE "False"
        /\ arg' = m
  /\ op' = "enqueue" /\ invoked' = {}
  /\ UNCHANGED <<now, qm_queues, files, routerVars, hub, failing, attempts, requeues>>

\* A running queue, producers of messages with no or one retry, a holder that
\* dequeues and rejects what it holds, with or without requeue.
NextRequeue ==
  \/ Tick
  \/ (~queues[TestQ].is_running /\ QueueStart(TestQ))
  \/ \E p \in {"high", "low"}, ttl \in {NoTtl, MaxTtl}, n \in {0, MaxRetries} :
       FreshId <= MaxRouted /\ EnqueueWithRetries(TestQ, p, ttl, n)
  \/ Dequeue(TestQ)
  \/ \E m \in MsgIds, requeue \in BOOLEAN :
       queues[TestQ].stats.messages_rejected < MaxRejects /\ Reject(TestQ, m, requeue)

SpecRequeue == InitCapacity /\ [][NextRequeue]_vars

\* ------------------------------------------------------------------ C1
Rank(p) == CHOOSE i \in 1..Len(Priorities) : Priorities[i] = p
Members(buckets) == {m \in MsgIds : InBuckets(buckets, m)}
NoExpiredIn(buckets, t) == \A m \in Members(buckets) : ~is_expired(msgs[m], t)
\* m comes before m2 in the order urgent, high, normal, low and, within a
\* level, in the order of the enqueue calls
Before(m, m2) ==
  \/ Rank(msgs[m].priority) < Rank(msgs[m2].priority)
  \/ Rank(msgs[m].priority) = Rank(msgs[m2].priority) /\ m < m2

\* C1: on a running queue that holds no expired message, every dequeue
\* returns the message that is first in the order (urgent, high, normal, low;
\* then order of enqueue) among those queued, and removes exactly that one;
\* so repeated dequeues yield all urgent messages first, then high, normal,
\* low, each level in FIFO order.
C1_PriorityThenFifo ==
  [][ ( /\ op' = "dequeue"
        /\ queues[TestQ].is_running
        /\ ~is_empty(queues[TestQ].messages)
        /\ NoExpiredIn(queues[TestQ].messages, now) )
      => /\ ret' = "message"
         /\ arg' \in Members(queues[TestQ].messages)
         /\ \A m2 \in Members(queues[TestQ].messages) \ {arg'} : Before(arg', m2)
         /\ Members(queues'[TestQ].messages) = Members(queues[TestQ].messages) \ {arg'}
    ]_vars

\* a dequeue returned a message enqueued after a queued one of lower priority,
\* ahead of a later message of its own level
C1_Witness ==
  /\ op = "dequeue" /\ ret = "message"
  /\ \E m2, m3 \in Members(queues[TestQ].messages) :
        /\ m2 < arg /\ Rank(msgs[m2].priority) > Rank(msgs[arg].priority)
        /\ m3 > arg /\ msgs[m3].priority = msgs[arg].priority

\* ------------------------------------------------------------------ C2
InSeq(sq, x) == \E i \in 1..Len(sq) : sq[i] = x

\* C2: route_message returns False exactly when the message is expired or
\* the pending buffer holds max_queue_size messages; then the pending buffer
\* is left alone and the message is in the dead-letter set with status failed
\* and reason "expired" (checked first) or "queue_full". Otherwise it returns
\* True, the message has status sent and is the last element of the pending
\* buffer.
C2_RouteMessageOutcome ==
  [][ op' = "route_message" =>
        LET m       == arg'
            expired == msgs'[m].ttl \notin {NoTtl, 0}
                       /\ now - msgs'[m].timestamp > msgs'[m].ttl
            full    == Len(pending_messages) >= max_queue_size
        IN IF expired \/ full
           THEN /\ ret' = "False"
                /\ pending_messages' = pending_messages
                /\ InSeq(dead_letter_queue', m)
                /\ msgs'[m].status = "failed"
                /\ msgs'[m].dead_letter_reason = IF expired THEN "expired" ELSE "queue_full"
           ELSE /\ ret' = "True"
                /\ msgs'[m].status = "sent"
                /\ pending_messages' = Append(pending_messages, m)
                /\ ~InSeq(dead_letter_queue', m)
    ]_vars

\* an expired message was handed to a router whose pending buffer is full:
\* it is dropped as expired
C2_Witness ==
  /\ op = "route_message" /\ ret = "False"
  /\ msgs[arg].dead_letter_reason = "expired"
  /\ Len(pending_messages) >= max_queue_size

\* ------------------------------------------------------------------ C3
\* C3: route_message only enqueues: it calls no handler and leaves the retry
\* buffer, the route table, the handler registries and the queues alone; a
\* handler is called only by a step of the processing loop or of flush_queues.
C3_RouteMessageOnlyEnqueues ==
  [][ /\ op' = "route_message" =>
          /\ invoked' = {} /\ attempts' = attempts
          /\ retry_queue' = retry_queue
          /\ routes' = routes
          /\ agent_handlers' = agent_handlers
          /\ broadcast_handlers' = broadcast_handlers
          /\ queues' = queues
      /\ (attempts' # attempts \/ invoked' # {}) => op' \in {"process", "flush"}
    ]_vars

\* a message was accepted while a direct handler for its receiver, a matching
\* route and a broadcast handler were registered and a retry was waiting
C3_Witness ==
  /\ op = "route_message" /\ ret = "True"
  /\ msgs[arg].receiver_id \in DOMAIN agent_handlers
  /\ FirstMatch(routes, msgs[arg]) # 0
  /\ broadcast_handlers # {}
  /\ retry_queue # <<>>

\* ------------------------------------------------------------------ C4
NeverExpires(m) == msgs[m].ttl = NoTtl
Unroutable(m) ==
  /\ msgs[m].receiver_id # Broadcast
  /\ msgs[m].receiver_id \notin DOMAIN agent_handlers
  /\ \A i \in 1..Len(routes) : ~matches(routes[i], msgs[m])

\* C4: a failed delivery attempt of the processing loop puts the message in
\* the retry buffer, retry_count one higher and status pending, when it can be
\* retried (retry_count < max_retries and not expired), and else in the
\* dead-letter set with reason "max_retries_exceeded". A never-expiring message
\* gets at most max_retries + 1 attempts, has had exactly that many when it is
\* dead-lettered for exhaustion, and every attempt for a receiver without
\* direct handler and matching route fails.
C4_RetryThenDeadLetter ==
  /\ [][ (op' = "process" /\ ret' = "False") =>
           LET m == arg'
               retryable == /\ msgs[m].retry_count < msgs[m].max_retries
                            /\ ~(msgs[m].ttl \notin {NoTtl, 0}
                                 /\ now - msgs[m].timestamp > msgs[m].ttl)
           IN IF retryable
              THEN /\ retry_queue' = Append(retry_queue, <<m, now + retry_delay>>)
                   /\ msgs'[m].retry_count = msgs[m].retry_count + 1
                   /\ msgs'[m].status = "pending"
                   /\ dead_letter_queue' = dead_letter_queue
              ELSE /\ dead_letter_queue' = Append(dead_letter_queue, m)
                   /\ msgs'[m].dead_letter_reason = "max_retries_exceeded"
                   /\ msgs'[m].status = "failed"
                   /\ msgs'[m].retry_count = msgs[m].retry_count
                   /\ retry_queue' = retry_queue
       ]_vars
  /\ [][ (op' = "process" /\ Unroutable(arg')) => ret' = "False" ]_vars
  /\ [](\A m \in MsgIds : NeverExpires(m) =>
          /\ attempts[m] <= msgs[m].max_retries + 1
          /\ msgs[m].dead_letter_reason = "max_retries_exceeded"
               => attempts[m] = msgs[m].max_retries + 1)

\* a never-expiring message with a retry budget was retried and then
\* dead-lettered, and one without budget was dead-lettered on its first attempt
C4_Witness ==
  /\ \E m \in MsgIds :
       /\ NeverExpires(m) /\ msgs[m].max_retries = MaxRetries
       /\ msgs[m].dead_letter_reason = "max_retries_exceeded"
       /\ attempts[m] = MaxRetries + 1
  /\ \E m \in MsgIds :
       /\ NeverExpires(m) /\ msgs[m].max_retries = 0
       /\ msgs[m].dead_letter_reason = "max_retries_exceeded"
       /\ attempts[m] = 1

\* ------------------------------------------------------------------ C5
RouteCalls(calls) == {c \in calls : c.via = "route"}

\* C5: a delivery attempt for a receiver with a registered direct handler
\* calls that handler only, and no handler of a pattern route.
C5_DirectBypassesRoutes ==
  (op \in {"process", "flush"} /\ msgs[arg].receiver_id \in DOMAIN agent_handlers)
    => (invoked # {} /\ RouteCalls(invoked) = {})

\* ------------------------------------------------------------------ C6
Matching(msg) == {i \in 1..Len(routes) : matches(routes[i], msg)}
\* the matching route that was registered first among those of the highest
\* priority
Preferred(msg) ==
  {i \in Matching(msg) :
     \A k \in Matching(msg) \ {i} :
        \/ routes[i].priority > routes[k].priority
        \/ routes[i].priority = routes[k].priority /\ routes[i].reg < routes[k].reg}

\* C6: the route table is ordered by priority descending, equal priorities in
\* registration order; a delivery attempt of a non-broadcast message calls at
\* most one route handler, that of the first matching route of the table,
\* which is the earliest registered of the matching routes of highest priority.
C6_FirstMatchWins ==
  /\ \A i, j \in 1..Len(routes) :
        i < j => \/ routes[i].priority > routes[j].priority
                 \/ routes[i].priority = routes[j].priority /\ routes[i].reg < routes[j].reg
  /\ (op \in {"process", "flush"} /\ msgs[arg].receiver_id # Broadcast) =>
        /\ Cardinality(RouteCalls(invoked)) <= 1
        /\ \A c \in RouteCalls(invoked) :
              \E i \in Preferred(msgs[arg]) :
                 /\ c.reg = routes[i].reg /\ c.handler = routes[i].handler
                 /\ \A k \in 1..(i - 1) : ~matches(routes[k], msgs[arg])

\* a route handler was called for a message that two routes of equal priority
\* match, the later registered one with the more specific pattern
C6_Witness ==
  /\ op = "process" /\ RouteCalls(invoked) # {}
  /\ Len(routes) = 2
  /\ routes[1].priority = routes[2].priority
  /\ routes[1].pattern = <<"*">> /\ routes[2].pattern # <<"*">>
  /\ Matching(msgs[arg]) = {1, 2}

\* ------------------------------------------------------------------ C7
\* C7: a delivery attempt of a broadcast message calls every registered
\* broadcast handler, also after one of them raised, and nothing else; it
\* succeeds iff one of them returned without raising, and fails when none is
\* registered.
C7_BroadcastDelivery ==
  (op \in {"process", "flush"} /\ msgs[arg].receiver_id = Broadcast) =>
     /\ {c.handler : c \in invoked} = broadcast_handlers
     /\ \A c \in invoked : c.via = "broadcast" /\ (c.raised <=> c.handler.name \in failing)
     /\ ret = "True" <=> (\E h \in broadcast_handlers : h.name \notin failing)
     /\ broadcast_handlers = {} => ret = "False"

\* a broadcast succeeded although one of the two handlers raised, while a
\* catch-all route and a direct handler were registered
C7_Witness ==
  /\ op = "process" /\ msgs[arg].receiver_id = Broadcast /\ ret = "True"
  /\ Cardinality(broadcast_handlers) = 2
  /\ \E c \in invoked : c.raised
  /\ routes # <<>> /\ DOMAIN agent_handlers # {}

\* ------------------------------------------------------------------ C8
AgentQueue(a) == queues[qm_queues[QueueName(a)]]
HasQueue(a) == QueueName(a) \in DOMAIN qm_queues

\* C8: once the router has processed a message sent by hub.broadcast_message,
\* every agent registered on the hub has the message in its queue.
C8_BroadcastReachesAgents ==
  (op = "process" /\ msgs[arg].via = "broadcast_message") =>
     \A a \in hub.registered_agents :
        HasQueue(a) /\ InBuckets(AgentQueue(a).messages, arg)

\* ------------------------------------------------------------------ C9
\* the number of places the message occupies in the queues
Occurrences(m) ==
  Cardinality({x \in QIds \X PrioritySet \X (1..MaxMsgs) :
                 /\ x[3] <= Len(queues[x[1]].messages[x[2]])
                 /\ queues[x[1]].messages[x[2]][x[3]] = m})

BuiltBy(m, s, r, b) == msgs[m].via = ResearchCall(s, r, b)
IsResearchRequest(m) == \E s, r \in Agents, b \in Briefs : BuiltBy(m, s, r, b)

\* C9: send_research_request(S, R, brief) of a registered S yields a message
\* of type research_request from S to R whose payload holds the brief; when
\* the started hub's router processes it while R is registered, the message
\* is appended once to the high bucket of R's queue, unchanged, every other
\* queue is left alone, and the attempt succeeds; the message is never in
\* more than one place of the queues and is attempted once.
C9_ResearchRequestEndToEnd ==
  /\ [](\A m \in MsgIds, s, r \in Agents, b \in Briefs :
          BuiltBy(m, s, r, b) =>
             /\ msgs[m].message_type = "research_request"
             /\ msgs[m].sender_id = s /\ msgs[m].receiver_id = r
             /\ msgs[m].payload = [isdict |-> TRUE, key |-> "subtopic_brief", val |-> b]
             /\ Occurrences(m) <= 1 /\ attempts[m] <= 1)
  /\ [][ ( /\ op' = "process" /\ IsResearchRequest(arg')
           /\ hub.is_running /\ msgs[arg'].receiver_id \in hub.registered_agents )
         => LET m == arg'
                r == msgs[m].receiver_id
                q == qm_queues[QueueName(r)]
            IN /\ HasQueue(r)
               /\ ~InBuckets(queues[q].messages, m)
               /\ queues'[q] = [queues[q] EXCEPT !.messages["high"] = Append(@, m)]
               /\ \A q2 \in QIds \ {q} : queues'[q2] = queues[q2]
               /\ ret' = "True"
               /\ msgs'[m] = [msgs[m] EXCEPT !.status = "delivered"]
       ]_vars

\* a research request from a1 was processed and is the one message of a2's
\* queue, while the queue of a1 holds the request a2 sent before
C9_Witness ==
  /\ op = "process" /\ \E b \in Briefs : BuiltBy(arg, "a1", "a2", b)
  /\ HasQueue("a1") /\ HasQueue("a2")
  /\ AgentQueue("a2").messages = [EmptyBuckets EXCEPT !["high"] = <<arg>>]
  /\ TotalSize(AgentQueue("a1").messages) = 1
  /\ ~InBuckets(AgentQueue("a1").messages, arg)

\* ----------------------------------------------------------------- C10
EmptyRequired(msg) ==
  \/ msg.sender_id = "" \/ msg.receiver_id = "" \/ msg.session_id = ""
  \/ msg.message_type = ""
  \/ msg.payload \in {[isdict |-> TRUE, key |-> "", val |-> ""],
                      [isdict |-> FALSE, key |-> "", val |-> ""]}
Malformed(msg) ==
  EmptyRequired(msg) \/ ~msg.payload.isdict \/ msg.message_type \notin MessageTypes

InRetry(m) == \E i \in 1..Len(retry_queue) : retry_queue[i][1] = m

\* C10: hub.send_message of a message with an empty required field, a
\* payload that is not a dict or an unrecognised type returns False, counts
\* one communication error and changes nothing in the router; the message is
\* never in the pending, retry or dead-letter buffer or in a queue and is
\* never attempted.
C10_InvalidMessageRejected ==
  /\ [][ (op' = "send_message" /\ Malformed(msgs'[arg'])) =>
           /\ ret' = "False"
           /\ hub'.stats.communication_errors = hub.stats.communication_errors + 1
           /\ hub'.stats.messages_sent = hub.stats.messages_sent
           /\ pending_messages' = pending_messages
           /\ retry_queue' = retry_queue
           /\ dead_letter_queue' = dead_letter_queue
           /\ router_stats' = router_stats
           /\ attempts' = attempts
       ]_vars
  /\ [](\A m \in MsgIds :
          (msgs[m].created /\ Malformed(msgs[m])) =>
             /\ ~InSeq(pending_messages, m) /\ ~InRetry(m) /\ ~InSeq(dead_letter_queue, m)
             /\ Occurrences(m) = 0 /\ attempts[m] = 0
             /\ msgs[m].status = "pending")

\* a message with a string payload was refused by a started hub whose router
\* holds a pending message: the first communication error
C10_Witness ==
  /\ op = "send_message" /\ ret = "False"
  /\ ~msgs[arg].payload.isdict
  /\ hub.is_running /\ pending_messages # <<>>
  /\ hub.stats.communication_errors = 1

\* ----------------------------------------------------------------- C11
SenderNames ==
  {"send_task_assignment", "send_research_request", "send_research_result",
   "send_quality_feedback", "send_status_update", "broadcast_message"}

\* C11: a convenience sender called with a sender id that is not registered
\* on the hub returns False, builds no message and leaves the hub, the
\* router's buffers and counters and the queues as they were.
C11_UnknownSenderRejected ==
  [][ \A name \in SenderNames, s \in Agents :
        (op' = CallOp(name, s) /\ s \notin hub.registered_agents) =>
           /\ ret' = "False" /\ arg' = NoMsg
           /\ msgs' = msgs
           /\ hub' = hub
           /\ pending_messages' = pending_messages
           /\ retry_queue' = retry_queue
           /\ dead_letter_queue' = dead_letter_queue
           /\ router_stats' = router_stats
           /\ queues' = queues
    ]_vars

\* a sender that was registered, sent a message and was unregistered is
\* refused on a started hub that holds its earlier message
C11_Witness ==
  /\ op = CallOp("send_status_update", "a1") /\ ret = "False"
  /\ "a1" \notin hub.registered_agents
  /\ \E m \in MsgIds : msgs[m].sender_id = "a1" /\ InSeq(pending_messages, m)
  /\ hub.is_running /\ pending_messages # <<>>

\* ----------------------------------------------------------------- C12
\* C12: register_agent of an agent that is registered returns True and
\* changes nothing: the hub's registry, builders, records and counters, the
\* queue manager and the queue objects, the router's handlers.
C12_RegisterIdempotent ==
  [][ \A a \in Agents :
        (op' = CallOp("register_agent", a) /\ a \in hub.registered_agents) =>
           /\ ret' = "True"
           /\ hub' = hub
           /\ qm_queues' = qm_queues /\ queues' = queues
           /\ agent_handlers' = agent_handlers
           /\ routes' = routes /\ pending_messages' = pending_messages
           /\ router_stats' = router_stats /\ msgs' = msgs
    ]_vars

\* register_agent was called for an agent whose queue already holds a message
C12_Witness ==
  /\ op = CallOp("register_agent", "a2")
  /\ HasQueue("a2") /\ TotalSize(AgentQueue("a2").messages) = 1
  /\ hub.message_count["a2"] = 1

\* ----------------------------------------------------------------- C13
\* C13: unregister_agent of a registered agent returns True and leaves the
\* agent out of the registered set, the agent-queue map and the builder map,
\* its queue name out of the queue manager and the router without a direct
\* handler for it, and the other agents as they were; of an agent that is
\* not registered it returns False and changes nothing.
C13_UnregisterReverses ==
  [][ \A a \in Agents :
        op' = CallOp("unregister_agent", a) =>
          IF a \in hub.registered_agents
          THEN /\ ret' = "True"
               /\ a \notin hub'.registered_agents
               /\ a \notin hub'.agent_queues
               /\ a \notin hub'.message_builders
               /\ QueueName(a) \notin DOMAIN qm_queues'
               /\ a \notin DOMAIN agent_handlers'
               /\ \A b \in Agents \ {a} :
                    /\ (b \in hub'.registered_agents) = (b \in hub.registered_agents)
                    /\ (b \in hub'.message_builders) = (b \in hub.message_builders)
                    /\ (b \in DOMAIN agent_handlers') = (b \in DOMAIN agent_handlers)
                    /\ b \in DOMAIN agent_handlers => agent_handlers'[b] = agent_handlers[b]
                    /\ (QueueName(b) \in DOMAIN qm_queues') = (QueueName(b) \in DOMAIN qm_queues)
                    /\ QueueName(b) \in DOMAIN qm_queues =>
                         /\ qm_queues'[QueueName(b)] = qm_queues[QueueName(b)]
                         /\ queues'[qm_queues[QueueName(b)]] = queues[qm_queues[QueueName(b)]]
          ELSE /\ ret' = "False"
               /\ hub' = hub
               /\ qm_queues' = qm_queues /\ queues' = queues
               /\ agent_handlers' = agent_handlers
               /\ routes' = routes /\ router_stats' = router_stats /\ msgs' = msgs
    ]_vars

\* an agent that had received a message was unregistered while the other
\* agent stays registered with its queue
C13_Witness ==
  /\ op = CallOp("unregister_agent", "a2") /\ ret = "True"
  /\ \E m \in MsgIds : msgs[m].receiver_id = "a2" /\ msgs[m].status = "delivered"
  /\ "a1" \in hub.registered_agents /\ HasQueue("a1")
  /\ qm_queues # EmptyDict

\* ----------------------------------------------------------------- C15
\* C15: enqueue returns False and leaves the buckets alone when the buckets
\* hold max_size messages or more or the message is expired; otherwise it
\* returns True and appends the message to the bucket of its priority. The
\* total size of the queue never exceeds max_size, whatever enqueue, dequeue,
\* reject-with-requeue and sweep steps are taken.
C15_EnqueueCapacity ==
  /\ [][ op' = "offer" =>
           LET m       == arg'
               full    == TotalSize(queues[TestQ].messages) >= queues[TestQ].max_size
               expired == msgs'[m].ttl \notin {NoTtl, 0}
                          /\ now - msgs'[m].timestamp > msgs'[m].ttl
           IN IF full \/ expired
              THEN ret' = "False" /\ queues' = queues
              ELSE /\ ret' = "True"
                   /\ queues'[TestQ].messages =
                        [queues[TestQ].messages EXCEPT ![msgs'[m].priority] = Append(@, m)]
       ]_vars
  /\ [](TotalSize(queues[TestQ].messages) <= queues[TestQ].max_size)

\* a live message was refused by a full queue that had taken back a rejected
\* message
C15_Witness ==
  /\ op = "offer" /\ ret = "False"
  /\ ~is_expired(msgs[arg], now)
  /\ TotalSize(queues[TestQ].messages) = queues[TestQ].max_size
  /\ \E m \in Members(queues[TestQ].messages) : msgs[m].status = "failed"

\* ----------------------------------------------------------------- C16
\* C16: dequeue keeps strict priority order when expired messages are
\* queued: a dequeue that returns a message never returns one of a lower
\* priority while a non-expired message of a higher priority is in the queue.
C16_StrictPriorityWithExpired ==
  [][ (op' = "dequeue" /\ ret' = "message") =>
        \A k \in Members(queues[TestQ].messages) :
          ~is_expired(msgs[k], now) => Rank(msgs[k].priority) >= Rank(msgs[arg'].priority)
    ]_vars

\* ----------------------------------------------------------------- C17
QStats == queues[TestQ].stats
Acknowledged(m) ==
  /\ msgs'[m].status = "acknowledged"
  /\ QStats'.messages_acknowledged = QStats.messages_acknowledged + 1
  /\ QStats'.messages_rejected = QStats.messages_rejected
RejectedForGood(m) ==
  /\ msgs'[m].status = "failed"
  /\ QStats'.messages_rejected = QStats.messages_rejected + 1
  /\ QStats'.messages_acknowledged = QStats.messages_acknowledged
  /\ ~InBuckets(queues'[TestQ].messages, m)

\* C17 as stated: in a consumer loop a handler that returns true leads to
\* status acknowledged and messages_acknowledged + 1, and a handler that
\* returns false leads to status failed, messages_rejected + 1 and no
\* re-enqueue, on a queue with auto_acknowledge enabled too.
C17_HandlerResultGoverns ==
  [][ op' = "consume" =>
        /\ ret' = "True" => Acknowledged(arg')
        /\ ret' = "False" => RejectedForGood(arg')
    ]_vars

\* C17 amended: a handler that returns true leads to status acknowledged and
\* messages_acknowledged + 1; a handler that returns false leads to status
\* failed, messages_rejected + 1 and no re-enqueue on a queue whose
\* auto_acknowledge option is disabled, and to status acknowledged and
\* messages_acknowledged + 1 on a queue whose auto_acknowledge is enabled.
C17_ResultOrAutoAcknowledge ==
  [][ op' = "consume" =>
        /\ ret' = "True" => Acknowledged(arg')
        /\ (ret' = "False" /\ ~queues[TestQ].auto_acknowledge) => RejectedForGood(arg')
        /\ (ret' = "False" /\ queues[TestQ].auto_acknowledge) => Acknowledged(arg')
    ]_vars

\* a handler returned false on a queue with auto_acknowledge enabled, after a
\* handler had returned true
C17_Witness ==
  /\ op = "consume" /\ ret = "False"
  /\ queues[TestQ].auto_acknowledge
  /\ msgs[arg].status = "acknowledged"
  /\ QStats.messages_acknowledged = 2

\* ----------------------------------------------------------------- C18
Tasks == queues[TestQ].consumer_tasks
Handler(m) == CHOOSE c \in ConsumerIds : Tasks[c] = [pc |-> "handling", msg |-> m]

\* C18: when a consumer's handler raises, the loop catches the exception and
\* rejects the message without requeue (status failed, messages_rejected + 1,
\* the message in no bucket); the loop is not ended by it: the consumer and
\* its task stay, the task is back at the head of its loop, a task leaves
\* its loop only when the queue is not running, and each pass of a loop on a
\* running queue that holds messages takes one of them into the handler.
C18_HandlerExceptionRejects ==
  /\ [][ (op' = "consume" /\ ret' = "raise") =>
           /\ RejectedForGood(arg')
           /\ Tasks'[Handler(arg')] = NewTask
           /\ queues'[TestQ].consumers = queues[TestQ].consumers
           /\ queues'[TestQ].is_running = queues[TestQ].is_running
       ]_vars
  /\ [][ \A c \in ConsumerIds :
           (Tasks'[c].pc = "done" /\ Tasks[c].pc # "done") => ~queues[TestQ].is_running
       ]_vars
  /\ [][ (op' = "take" /\ ~is_empty(queues[TestQ].messages)) =>
           /\ arg' \in Members(queues[TestQ].messages)
           /\ \E c \in ConsumerIds :
                Tasks[c] = NewTask /\ Tasks'[c] = [pc |-> "handling", msg |-> arg']
       ]_vars

\* the only consumer loop ever started on the queue acknowledged a message
\* that was enqueued after the one its handler had raised on
C18_Witness ==
  /\ op = "consume" /\ ret = "True" /\ msgs[arg].status = "acknowledged"
  /\ queues[TestQ].auto_acknowledge
  /\ QStats.consumers_active = 1
  /\ QStats.messages_rejected = 1
  /\ \E m \in MsgIds : m < arg /\ msgs[m].created /\ msgs[m].status = "failed"

\* ----------------------------------------------------------------- C14
ProgramUnchanged == UNCHANGED <<now, msgs, queueVars, routerVars, hub, failing>>
\* a queue object that is stopped: no consumer task, no cleanup task running
AtRest(q) == ~q.is_running /\ TaskIds(q) = {} /\ q.cleanup_task # "running"
Managed == {qm_queues[n] : n \in DOMAIN qm_queues}

\* C14: a stop() of a queue, a router or a hub that is not running changes
\* no state, and a stop() of one that is running leaves it stopped:
\* is_running false, no consumer task and no cleanup task on the queue (on
\* every queue of the hub's manager), no processing loop in the router. A
\* second stop() therefore finds the component stopped and leaves it so.
C14_StopIdempotent ==
  /\ [][ op' = "queue_stop" =>
           IF queues[TestQ].is_running THEN AtRest(queues'[TestQ]) ELSE ProgramUnchanged ]_vars
  /\ [][ op' = "stop_processing" =>
           IF router_running THEN ~router_running' ELSE ProgramUnchanged ]_vars
  /\ [][ op' = "hub_stop" =>
           IF hub.is_running
           THEN /\ ~hub'.is_running /\ ~router_running'
                /\ \A q \in Managed : AtRest(queues'[q])
           ELSE ProgramUnchanged ]_vars

\* a second stop() of a hub that had been started with a registered agent
\* and stopped, the router and the queue with a consumer stopped as well
C14_Witness ==
  /\ op = "hub_stop" /\ ret = ""
  /\ router_stats.routes_registered > 0 /\ ~hub.is_running /\ ~router_running
  /\ "a1" \in hub.registered_agents
  /\ AtRest(queues[TestQ]) /\ queues[TestQ].cleanup_task = "cancelled"
  /\ queues[TestQ].stats.consumers_active > 0

\* ----------------------------------------------------------------- C19
\* the live messages of the buckets in the order urgent, high, normal, low
\* and, within a level, in the order they are queued
LiveOrder(buckets, t) ==
  SelectLive(buckets["urgent"], t) \o SelectLive(buckets["high"], t)
    \o SelectLive(buckets["normal"], t) \o SelectLive(buckets["low"], t)
IsPrefix(s, w) == Len(s) <= Len(w) /\ \A i \in 1..Len(s) : s[i] = w[i]
Without(s, got) == SelectSeq(s, LAMBDA m : \A i \in 1..Len(got) : got[i] # m)
Polled(a) == op' = CallOp("get_agent_messages", a)

\* C19: get_agent_messages(agent, count) returns at most count messages,
\* which are the first of the agent's queue in the order priority, then
\* FIFO, and are removed from it; the messages that remain stay queued in
\* their order (expired ones aside); for an agent that has no queue it
\* returns the empty list and changes nothing.
C19_GetAgentMessages ==
  [][ \A a \in Agents : Polled(a) =>
        IF a \notin hub.agent_queues \/ ManagedQueue(a) = NoQueue
        THEN ret' = <<>> /\ UNCHANGED <<now, msgs, queueVars, routerVars, hub, failing>>
        ELSE LET before == queues[ManagedQueue(a)].messages
                 after  == queues'[ManagedQueue(a)].messages
             IN /\ Len(ret') <= arg'
                /\ IsPrefix(ret', LiveOrder(before, now))
                /\ \A p \in PrioritySet :
                     SelectLive(after[p], now) = Without(SelectLive(before[p], now), ret')
    ]_vars

\* ----------------------------------------------------------------- C20
ReadyEntries == {i \in 1..Len(retry_queue) : retry_queue[i][2] <= now}

\* C20: when flush_all_messages returns on a started hub, the router's
\* pending buffer is empty, every retry entry whose scheduled time had
\* passed has left the retry queue and has been attempted, and the queue of
\* every agent registered on the hub is empty.
C20_FlushLeavesNothing ==
  [][ (op' = "flush_all_messages" /\ hub.is_running) =>
        /\ pending_messages' = <<>>
        /\ \A i \in ReadyEntries :
             /\ attempts'[retry_queue[i][1]] > attempts[retry_queue[i][1]]
             /\ \A k \in 1..Len(retry_queue') : retry_queue'[k] # retry_queue[i]
        /\ \A a \in hub.registered_agents :
             ManagedQueue(a) # NoQueue => is_empty(queues'[ManagedQueue(a)].messages)
    ]_vars

\* ----------------------------------------------------------------- C21
\* the rules of the route patterns: '*' takes exactly one segment, '**' one
\* or more, any other segment the identical one; the bare '*' takes any key
RECURSIVE RuleMatch(_, _)
RuleMatch(pattern, key) ==
  IF pattern = <<>> THEN key = <<>>
  ELSE IF key = <<>> THEN FALSE
  ELSE IF Head(pattern) = "*" THEN RuleMatch(Tail(pattern), Tail(key))
  ELSE IF Head(pattern) = "**"
       THEN \E n \in 1..Len(key) : RuleMatch(Tail(pattern), SubSeq(key, n + 1, Len(key)))
       ELSE Head(pattern) = Head(key) /\ RuleMatch(Tail(pattern), Tail(key))

\* C21: for every pattern and key of bounded length the route matcher
\* returns true iff the key matches the pattern under the rules: '*' one
\* segment, '**' one or more segments, another segment only itself, the bare
\* pattern '*' every key.
C21_MatcherRules ==
  [][ op' = "matches" =>
        (ret' = "True") = (arg'[1] = <<"*">> \/ RuleMatch(arg'[1], arg'[2])) ]_vars

\* ----------------------------------------------------------------- C22
\* C22: can_retry() answers true iff retry_count < max_retries and
\* is_expired() is false; mark_retry() adds exactly one to retry_count, sets
\* the status to pending and changes no other field of the message, and no
\* other message.
C22_RetryBudget ==
  /\ [][ op' = "can_retry" =>
           (ret' = "True") = ( /\ msgs[arg'].retry_count < msgs[arg'].max_retries
                               /\ ~is_expired(msgs[arg'], now) ) ]_vars
  /\ [][ op' = "mark_retry" =>
           /\ msgs'[arg'] = [msgs[arg'] EXCEPT !.retry_count = msgs[arg'].retry_count + 1,
                                               !.status = "pending"]
           /\ \A k \in MsgIds \ {arg'} : msgs'[k] = msgs[k] ]_vars

\* a live message that was marked for retry max_retries times cannot be
\* retried
C22_Witness ==
  /\ op = "can_retry" /\ ret = "False"
  /\ msgs[arg].max_retries > 0
  /\ msgs[arg].retry_count = msgs[arg].max_retries
  /\ msgs[arg].status = "pending"
  /\ ~is_expired(msgs[arg], now)

\* ----------------------------------------------------------------- C23
\* C23: is_expired() is false for a message without ttl; for a message with
\* a ttl, 0 included, it is true exactly when the time elapsed since the
\* timestamp of the message is greater than ttl.
C23_ExpiryByTtl ==
  [][ op' = "is_expired" =>
        (ret' = "True") = ( /\ msgs[arg'].ttl # NoTtl
                            /\ now - msgs[arg'].timestamp > msgs[arg'].ttl ) ]_vars

\* ----------------------------------------------------------------- C24
\* C24: create_reply(new sender, payload, type) on a message m makes a new
\* message with sender_id the new sender, receiver_id the sender of m,
\* correlation_id and reply_to the message_id of m, the session_id of m and
\* the type given, status pending and retry_count 0, and leaves m and every
\* other message as it was.
C24_ReplyLinkage ==
  [][ \A a \in {"B", "C"} : op' = CallOp("create_reply", a) =>
        LET m == arg'
            r == ret'
        IN /\ r # m /\ ~msgs[r].created /\ msgs'[r].created
           /\ msgs'[r].sender_id = a
           /\ msgs'[r].receiver_id = msgs[m].sender_id
           /\ msgs'[r].correlation_id = m /\ msgs'[r].reply_to = m
           /\ msgs'[r].session_id = msgs[m].session_id
           /\ msgs'[r].status = "pending" /\ msgs'[r].retry_count = 0
           /\ \A k \in MsgIds \ {r} : msgs'[k] = msgs[k]
    ]_vars

\* a reply to a reply: it goes back to the sender of the first reply and
\* is linked to that reply, in the session of the original
C24_Witness ==
  /\ op = CallOp("create_reply", "B")
  /\ msgs[ret].reply_to = arg /\ msgs[arg].reply_to = 1
  /\ msgs[arg].sender_id = "C" /\ msgs[ret].receiver_id = "C"
  /\ msgs[1].session_id = "s2" /\ msgs[ret].session_id = "s2"
  /\ msgs[1].retry_count > 0 /\ msgs[arg].retry_count = 0

\* ------------------------------------------------------------------ C25
\* C25: a message the router hands to a registered agent whose queue already
\* holds max_size messages ends in the router's dead-letter set, is not
\* queued for a retry and is not counted as delivered: neither the router's
\* nor the hub's messages_delivered grows in that turn of the loop.
C25_FullQueueDeadLetters ==
  [][(op' = "process" /\ HandlerQueue(msgs[arg'].receiver_id) # NoQueue
        /\ TotalSize(queues[HandlerQueue(msgs[arg'].receiver_id)].messages)
             >= queues[HandlerQueue(msgs[arg'].receiver_id)].max_size)
      => /\ \E i \in 1..Len(dead_letter_queue') : dead_letter_queue'[i] = arg'
         /\ \A i \in 1..Len(retry_queue') : retry_queue'[i][1] # arg'
         /\ msgs'[arg'].status # "delivered"
         /\ router_stats'.messages_delivered = router_stats.messages_delivered
         /\ hub'.stats.messages_delivered = hub.stats.messages_delivered]_vars
\* ------------------------------------------------------------------ C26
\* the messages a log holds, in the order they were written
LogIds(lines) ==
  LET opens == SelectSeq(lines, LAMBDA line : line.text = "{" \/ line.text = "{fields}")
  IN [i \in 1..Len(opens) |-> opens[i].id]
OfPriority(ids, p, t) ==
  SelectSeq(ids, LAMBDA m : msgs[m].priority = p /\ ~is_expired(msgs[m], t))

\* C26: with persistence enabled, a stop() leaves a log that holds exactly the
\* messages that were in memory, and a fresh queue of the same name started
\* on that log holds in each priority bucket the log's messages of that
\* priority that have not expired, in the same order.
C26_PersistenceRoundTrip ==
  /\ [][\A q \in QIds :
          (op' = "queue_stop" /\ queues[q].is_running /\ ~queues'[q].is_running)
          => LogIds(files'[queues[q].name]) = Flatten(queues[q].messages)]_vars
  /\ [][\A q \in QIds :
          (op' = "queue_start" /\ ~queues[q].is_running /\ queues'[q].is_running
             /\ Flatten(queues[q].messages) = <<>> /\ queues[q].name \in DOMAIN files)
          => \A p \in PrioritySet :
               queues'[q].messages[p] = OfPriority(LogIds(files[queues[q].name]), p, now)]_vars

\* ------------------------------------------------------------------ C27
InPending(m) == \E i \in 1..Len(pending_messages) : pending_messages[i] = m
InDeadLetters(m) == \E i \in 1..Len(dead_letter_queue) : dead_letter_queue[i] = m
Terminal(m) == msgs[m].status = "delivered" \/ InDeadLetters(m)

\* C27: while the processing loop runs and time advances, every message that
\* route_message accepted - a message in the pending or the retry buffer -
\* eventually is delivered or is in the dead-letter set.
C27_RoutingTerminates ==
  \A m \in MsgIds : (router_running /\ (InPending(m) \/ InRetry(m))) ~> Terminal(m)

\* a message that failed, waited in the retry buffer, was tried again and
\* was dead-lettered when its retries were used up
C27_Witness ==
  \E m \in MsgIds :
    /\ router_running /\ attempts[m] = MaxRetries + 1 /\ msgs[m].retry_count = MaxRetries
    /\ InDeadLetters(m) /\ msgs[m].dead_letter_reason = "max_retries_exceeded"
    /\ ~InPending(m) /\ ~InRetry(m)
\* ------------------------------------------------------------------ C28
Places(m) ==
  (IF InPending(m) THEN {"pending"} ELSE {})
    \cup (IF InRetry(m) THEN {"retry"} ELSE {})
    \cup (IF InDeadLetters(m) THEN {"dead_letter"} ELSE {})
    \cup (IF msgs[m].status = "delivered" THEN {"delivered"} ELSE {})

\* C28: a message of the router is in at most one of the pending buffer, the
\* retry buffer, the delivered messages and the dead-letter set, and a
\* delivery attempt that fails - in a turn of the processing loop or of
\* flush_queues - leaves its message in the retry buffer or in the
\* dead-letter set.
C28_Conservation ==
  /\ [](\A m \in MsgIds : Cardinality(Places(m)) <= 1)
  /\ [][(op' \in {"process", "flush"} /\ ret' = "False")
         => \/ \E i \in 1..Len(retry_queue') : retry_queue'[i][1] = arg'
            \/ \E i \in 1..Len(dead_letter_queue') : dead_letter_queue'[i] = arg']_vars
\* ------------------------------------------------------------------ C29
\* how often message m stands in the buckets
TimesIn(buckets, m) ==
  Cardinality({<<p, i>> \in PrioritySet \X (1..MaxMsgs) :
                 i <= Len(buckets[p]) /\ buckets[p][i] = m})

\* C29: whatever route handlers are registered, raising ones included, the
\* direct handler of the receiver completes at most once for a message,
\* retries included: the message stands at most once in the receiver's queue.
C29_HandedOverOnce ==
  \A m \in MsgIds : \A q \in QIds : TimesIn(queues[q].messages, m) <= 1
\* ------------------------------------------------------------------ C30
\* the queue agent_queue_<a> exists in the queue manager and is running
QueueRuns(a) == ManagedQueue(a) # NoQueue /\ queues[ManagedQueue(a)].is_running

\* C30: after any sequence of start, stop, register_agent and
\* unregister_agent calls, for every agent id the agent is registered with
\* the hub exactly if its queue exists and runs in the queue manager, and
\* exactly if the router holds a direct handler for the id.
C30_RegistryConsistent ==
  \A a \in Agents :
    /\ (a \in hub.registered_agents) = QueueRuns(a)
    /\ (a \in hub.registered_agents) = (a \in DOMAIN agent_handlers)
\* ------------------------------------------------------------------ C31
\* C31: no router-side handler is called with a message that is expired at
\* the moment of the call, and no message that is expired is put in the
\* retry buffer.
C31_ExpiredNeverHandled ==
  [][op' = "process"
       => /\ invoked' # {} => ~is_expired(msgs[arg'], now)
          /\ (\E i \in 1..Len(retry_queue') : retry_queue'[i][1] = arg')
               => ~is_expired(msgs[arg'], now)]_vars
\* ------------------------------------------------------------------ C32
\* C32: the pending buffer of the router never holds more than
\* max_queue_size messages.
C32_PendingBounded == Len(pending_messages) <= max_queue_size
\* ------------------------------------------------------------------ C33
\* C33: a message whose status is acknowledged keeps that status in every
\* later step of the router's loop and of the consumer loops.
C33_AcknowledgedIsFinal ==
  [][\A m \in MsgIds :
       msgs[m].status = "acknowledged" => msgs'[m].status = "acknowledged"]_vars
\* ------------------------------------------------------------------ C34
\* message m stands in some queue
Queued(m) == \E q \in QIds : TimesIn(queues[q].messages, m) > 0
\* the last step handed message m to a taker: a consumer loop took it for its
\* handler, or get_agent_messages returned it
TakenNow(m) ==
  \/ op = "take" /\ arg = m
  \/ op = CallOp("get_agent_messages", "a2") /\ \E i \in 1..Len(ret) : ret[i] = m
\* the consumers that hold message m for their handler
Holders(m) ==
  {<<q, c>> \in QIds \X ConsumerIds : queues[q].consumer_tasks[c].msg = m}

\* C34: with several consumers and get_agent_messages on one running queue,
\* a message is handed to one taker and never to two: the step that hands it
\* over takes its only copy out of the queue, a message enters a queue only
\* by its first delivery attempt, one result of get_agent_messages holds it
\* once, and at most one consumer holds it.
C34_OneTaker ==
  /\ [][\A m \in MsgIds :
          TakenNow(m)' => /\ TimesIn(queues[ManagedQueue("a2")].messages, m) = 1
                          /\ ~Queued(m)']_vars
  /\ [][\A m \in MsgIds :
          (~Queued(m) /\ Queued(m)') => (op' = "process" /\ arg' = m /\ attempts[m] = 0)]_vars
  /\ [](\A m \in MsgIds :
          /\ op = CallOp("get_agent_messages", "a2")
               => Cardinality({i \in 1..Len(ret) : ret[i] = m}) <= 1
          /\ Cardinality(Holders(m)) <= 1)

\* both consumers hold a message for their handlers and a poll has just
\* returned the third one
C34_Witness ==
  /\ op = CallOp("get_agent_messages", "a2") /\ Len(ret) = 1
  /\ \A c \in ConsumerIds :
       /\ queues[ManagedQueue("a2")].consumer_tasks[c].pc = "handling"
       /\ queues[ManagedQueue("a2")].consumer_tasks[c].msg # ret[1]
  /\ Cardinality({queues[ManagedQueue("a2")].consumer_tasks[c].msg : c \in ConsumerIds}) = 2
\* ------------------------------------------------------------------ C35
\* the agents registered through the second hub and not through the first
PeerOnly == hub.peer.registered_agents \ hub.registered_agents

\* C35: stop() or unregister_agent() on one hub leaves the queue and the
\* router's direct handler of every agent that was registered through the
\* other hub as they are, and leaves the router's loop running when the
\* other hub is running.
C35_HubIsolation ==
  [][(op' = "hub_stop" \/ \E a \in Agents : op' = CallOp("unregister_agent", a))
      => /\ \A b \in PeerOnly :
              /\ ManagedQueue(b) # NoQueue => ManagedQueue(b)' = ManagedQueue(b)
              /\ HandlerQueue(b) # NoQueue => HandlerQueue(b)' = HandlerQueue(b)
              /\ HandlerQueue(b) # NoQueue
                   => queues'[HandlerQueue(b)].is_running = queues[HandlerQueue(b)].is_running
         /\ (hub.peer.is_running /\ router_running) => router_running']_vars
\* ------------------------------------------------------------------ C36
\* the retry entries whose scheduled time has passed at t, and the others
Due(rq, t) == SelectSeq(rq, LAMBDA en : en[2] <= t)
NotDue(rq, t) == SelectSeq(rq, LAMBDA en : en[2] > t)
EntryIds(rq) == [i \in 1..Len(rq) |-> rq[i][1]]

\* C36: a failed attempt schedules its retry at the failure time plus the
\* fixed retry delay; a retry sweep appends to the pending buffer every entry
\* whose scheduled time has passed, in scheduling order, and leaves exactly
\* the entries whose time has not come.
C36_RetrySweep ==
  /\ [][Len(retry_queue') > Len(retry_queue)
          => retry_queue' = Append(retry_queue, <<arg', now + retry_delay>>)]_vars
  /\ [][(op' = "loop_tail" \/ Len(retry_queue') < Len(retry_queue))
          => /\ pending_messages' = pending_messages \o EntryIds(Due(retry_queue, now))
             /\ retry_queue' = NotDue(retry_queue, now)]_vars

\* a sweep of the loop has moved a due entry and left one that is not due
C36_Witness ==
  /\ op = "loop_tail" /\ pending_messages # <<>> /\ retry_queue # <<>>
  /\ \A i \in 1..Len(retry_queue) : retry_queue[i][2] > now
  /\ \E m \in MsgIds : InPending(m) /\ msgs[m].retry_count > 0
\* ------------------------------------------------------------------ C37
\* C37: with persistence enabled, stop() leaves the buckets of the queue
\* object as they are, and a start() of that stopped object after it leaves
\* every bucket with exactly the messages it held: none is lost, none is
\* there twice.
C37_RestartKeepsContents ==
  [][\A q \in QIds :
       \/ op' = "queue_stop" /\ queues[q].exists
       \/ /\ op' = "queue_start" /\ queues[q].cleanup_task = "cancelled"
          /\ queues'[q].is_running
       => queues'[q].messages = queues[q].messages]_vars

\* a queue that was stopped while it held messages, so that stop() rewrote
\* its log, has just been started again
C37_Witness ==
  /\ op = "queue_start" /\ ret = "Message queue started"
  /\ queues[TestQ].is_running /\ TotalSize(queues[TestQ].messages) >= 1
  /\ "test_queue" \in DOMAIN files
  /\ files["test_queue"] = PersistMessages(queues[TestQ])
  /\ FreshId # 1 + TotalSize(queues[TestQ].messages)
\* ----------------------------------------------------------------- C38
\* C38: queue-level retry is bounded: over its lifetime a message with
\* max_retries = N is put back in the queue by reject_message at most N times
\* (and only while can_retry() holds).
C38_RequeueBounded ==
  \A m \in MsgIds : msgs[m].created => requeues[m] <= msgs[m].max_retries
\* ----------------------------------------------------------------- C39
\* the routes of the table registered for a pattern with a priority
RoutesFor(pattern, priority) ==
  {j \in 1..Len(routes) : routes[j].pattern = pattern /\ routes[j].priority = priority}

\* C39: once a hub has been started the router holds the four baseline routes
\* task_assignment.* (10), research_request.* (10), status_update.* (5) and
\* * (1), each exactly once, whatever the number of stop()/start() cycles and
\* of hubs started: the route table does not grow with restarts.
C39_BaselineRoutesOnce ==
  (hub.is_running \/ hub.peer.is_running) =>
     /\ Len(routes) = 4
     /\ \A i \in 1..4 :
          Cardinality(RoutesFor(DefaultRoutes(0)[i].pattern,
                                DefaultRoutes(0)[i].priority)) = 1
\* ----------------------------------------------------------------- C40
\* C40: the statistic consumers_active equals the number of entries of
\* consumer_tasks after any sequence of add_consumer, start_consumer,
\* stop_consumer, remove_consumer and stop calls, and is never negative.
C40_ConsumersActiveExact ==
  /\ queues[TestQ].stats.consumers_active = Cardinality(TaskIds(queues[TestQ]))
  /\ queues[TestQ].stats.consumers_active >= 0
====
